---- MODULE Spec2Model ----
(***************************************************************************)
(* Model of src/src/bus.rs: the device-mode driver core of the Synopsys    *)
(* USB OTG controller.                                                     *)
(*                                                                         *)
(*  - EndpointAllocator (bus.rs 159-215): the two per-direction u8 bitmaps *)
(*    and the numbering algorithm alloc_number / alloc, called by itself   *)
(*    and through alloc_in / alloc_out, which end in unimplemented!().     *)
(*    Checked under SpecAlloc and SpecAllocator.                           *)
(*  - UsbBus::configure_all / deconfigure_all (bus.rs 38-130): the FIFO    *)
(*    partition and the endpoint bring-up.  Checked under SpecFifo.        *)
(*  - UsbBus::poll / reset (bus.rs 313-433): the interrupt poll state      *)
(*    machine against a model of the controller's registers, RX FIFO and   *)
(*    of the endpoint objects.  Checked under SpecPoll, and under SpecRx   *)
(*    for RX status entries whose EPNUM is outside 0..3.                   *)
(*  - UsbBus::reset / set_device_address (bus.rs 313-321, 435-441) after   *)
(*    bring-up with every set of initialised endpoints.  Checked under     *)
(*    SpecBringUp.                                                         *)
(*  - The critical sections of enable, reset, poll and set_device_address  *)
(*    with a foreground and an interrupt context.  Checked under SpecCtx.  *)
(***************************************************************************)
EXTENDS Integers, Sequences, FiniteSets, TLC

(***************************************************************************)
(* Bounds of the model and constants of the program.                       *)
(***************************************************************************)

\* Width in bits of the allocator bitmaps (endpoints_in: u8, endpoints_out: u8).
BITMAP_BITS == 8

\* Exclusive upper end of the "any free" scan, `for number in 1..4`.
SCAN_END == 4

\* First number of the "any free" scan, `for number in 1..4` (EP0 is skipped).
SCAN_START == 1

\* Specific-number requests are drawn from 0..MaxNumber ...
MaxNumber == 4

\* ... and from WrapNumbers, numbers whose shift `1u8 << number` overflows
\* the bitmap's width.
WrapNumbers == {BITMAP_BITS}

\* config.number = None (no number requested).
None == -1

Numbers == (0 .. MaxNumber) \cup WrapNumbers

Directions == {"In", "Out"}

\* Number of hardware endpoints per direction: endpoints_in[0..3],
\* endpoints_out[0..3].
NUM_ENDPOINTS == 4

EPS == 0 .. (NUM_ENDPOINTS - 1)

\* RX FIFO headroom added to the RX buffer demand, high-speed / full-speed.
RX_HEADROOM_HS == 30

RX_HEADROOM_FS == 20

\* Floor of every TX FIFO size, cmp::max(fifo_size_words(), 16).
TX_FIFO_FLOOR == 16

\* crate::ral::otg_fifo::FIFO_DEPTH_WORDS, the depth of the FIFO memory in
\* words (the full-speed core's 1.25 KiB).
FIFO_DEPTH_WORDS == 320

\* PKTSTS codes of an RX status entry.
PKTSTS_OUT_RECEIVED == 2

PKTSTS_OUT_COMPLETE == 3

PKTSTS_SETUP_COMPLETE == 4

PKTSTS_SETUP_RECEIVED == 6

\* A PKTSTS code of none of the above (global OUT NAK).
PKTSTS_OTHER == 1

\* The RX FIFO holds at most MaxRx status entries at a time.
MaxRx == 1


VARIABLES
    endpoints_in,     \* EndpointAllocator.endpoints_in  (u8 bitmap)
    endpoints_out,    \* EndpointAllocator.endpoints_out (u8 bitmap)
    overflow_checks,  \* build: TRUE = overflow checks on (debug), FALSE = off (release)
    panicked,         \* a panic (overflow check, assert!) has aborted the program
    alloc_last,       \* the last allocation call: request, result, bitmaps before it,
                      \* dup: it returned a number returned before in the direction,
                      \* again: it asked for such a number
    handed            \* per direction, the numbers returned successfully so far

alloc_vars == <<endpoints_in, endpoints_out, overflow_checks, panicked,
                alloc_last, handed>>

VARIABLES
    hs,        \* USB::HIGH_SPEED
    total_rx,  \* endpoint_allocator.total_rx_buffer_size_words()
    eps_in,    \* UsbBus.endpoints_in:  [init, fifo (fifo_size_words), conf] per number
    eps_out,   \* UsbBus.endpoints_out: [init, buf (buffer state), conf] per number
    regs,      \* the register fields the driver uses (see BusRegsInit)
    in_regs,   \* per IN endpoint: DIEPTSIZ.PKTCNT # 0, DIEPINT.XFRC
    rx_fifo,   \* the RX FIFO's status entries, head first
    call,      \* the last driver call: op, result, masks, snapshot, log
    env        \* what the hardware does in this run: traffic = the endpoints
               \* with packets and IN transfers, irqs = whether it raises
               \* enumeration done, wakeup and suspend, waits = the
               \* lengths of its busy-waits

bus_vars == <<hs, total_rx, eps_in, eps_out, regs, in_regs, rx_fifo, call, env>>

VARIABLES
    ctx,       \* per execution context (fg = foreground, isr = interrupt
               \* handler): the driver call in progress and how far it is
    primask    \* interrupts are disabled (a critical section is open)

ctx_vars == <<ctx, primask>>

vars == <<alloc_vars, bus_vars, ctx_vars>>

(***************************************************************************)
(* u8 helpers.                                                             *)
(***************************************************************************)

\* Bit k of the integer v.
BitOf(v, k) == (v \div (2 ^ k)) % 2

\* v & mask == 0 for a mask with exactly one bit set (mask = 2^k).
RECURSIVE Log2(_)
Log2(mask) == IF mask <= 1 THEN 0 ELSE 1 + Log2(mask \div 2)

MaskClear(v, mask) == BitOf(v, Log2(mask)) = 0

\* v | mask for a one-bit mask.
OrMask(v, mask) == IF MaskClear(v, mask) THEN v + mask ELSE v

\* `1 << number` on u8.  With overflow checks a shift by >= 8 panics
\* ("attempt to shift left with overflow"); without them the shift amount is
\* masked to the width, 1 << (number % 8).  0 stands for the panic.
Shl1 == [checks \in BOOLEAN, number \in Numbers |->
    IF number < BITMAP_BITS THEN 2 ^ number
    ELSE IF checks THEN 0
    ELSE 2 ^ (number % BITMAP_BITS)]

(***************************************************************************)
(* EndpointAllocator::alloc_number (bus.rs 172-190).                       *)
(* Result: [res, number, bitmap] with res one of "Ok", "InvalidEndpoint",  *)
(* "EndpointOverflow", "Panic".                                            *)
(***************************************************************************)

\* The scan with its end off by one (`1..3`): number 3 is never handed out.
RECURSIVE alloc_scan_short(_, _)
alloc_scan_short(bitmap, number) ==
    IF number >= SCAN_END - 1
    THEN [res |-> "EndpointOverflow", number |-> None, bitmap |-> bitmap]
    ELSE IF MaskClear(bitmap, 2 ^ number)
         THEN [res |-> "Ok", number |-> number, bitmap |-> OrMask(bitmap, 2 ^ number)]
         ELSE alloc_scan_short(bitmap, number + 1)

\* The `for number in 1..4` loop, from `number` on.
RECURSIVE alloc_scan(_, _)
alloc_scan(bitmap, number) ==
    IF number >= SCAN_END
    THEN [res |-> "EndpointOverflow", number |-> None, bitmap |-> bitmap]
    ELSE IF MaskClear(bitmap, 2 ^ number)
         THEN [res |-> "Ok", number |-> number, bitmap |-> OrMask(bitmap, 2 ^ number)]
         ELSE alloc_scan(bitmap, number + 1)

\* The specific-number branch with the error of the other branch.
alloc_specific_wrong_error(bitmap, number, checks) ==
    LET mask == Shl1[checks, number]
    IN  IF mask = 0
        THEN [res |-> "Panic", number |-> None, bitmap |-> bitmap]
        ELSE IF MaskClear(bitmap, mask)
             THEN [res |-> "Ok", number |-> number, bitmap |-> OrMask(bitmap, mask)]
             ELSE [res |-> "EndpointOverflow", number |-> None, bitmap |-> bitmap]

\* The `if let Some(number) = config.number` branch.
alloc_specific(bitmap, number, checks) ==
    LET mask == Shl1[checks, number]
    IN  IF mask = 0
        THEN [res |-> "Panic", number |-> None, bitmap |-> bitmap]
        ELSE IF MaskClear(bitmap, mask)
             THEN [res |-> "Ok", number |-> number, bitmap |-> OrMask(bitmap, mask)]
             ELSE [res |-> "InvalidEndpoint", number |-> None, bitmap |-> bitmap]

\* alloc_number with the scan not skipping EP0 (`for number in 0..4`).
alloc_number_scan_from_0(bitmap, config, checks) ==
    IF config.number # None
    THEN alloc_specific(bitmap, config.number, checks)
    ELSE alloc_scan(bitmap, 0)

alloc_number(bitmap, config, checks) ==
    IF config.number # None
    THEN alloc_specific(bitmap, config.number, checks)
    ELSE alloc_scan(bitmap, SCAN_START)

\* EndpointAddress::from_parts(number, direction): the address byte, direction
\* in bit 7.
from_parts(number, direction) ==
    (number % 128) + (IF direction = "In" THEN 128 ELSE 0)

\* EndpointAddress::number(): the address byte without the direction bit.
address_number(address) == address % 128

\* EndpointAllocator::alloc (bus.rs 192-200): the `?` passes an error on, a
\* success is wrapped into the descriptor.
alloc(bitmap, config, direction, checks) ==
    LET r == alloc_number(bitmap, config, checks)
    IN  [res     |-> r.res,
         bitmap  |-> r.bitmap,
         address |-> IF r.res = "Ok" THEN from_parts(r.number, direction) ELSE None]

\* alloc_last before any allocation call.  op is the function called,
\* descr what Self::alloc returned in it, res how the call ended for its
\* caller.
NoCall == [op |-> "none", dir |-> "none", number |-> None, descr |-> "none",
           res |-> "none", address |-> None,
           pre_in |-> 0, pre_out |-> 0, dup |-> FALSE, again |-> FALSE]

(***************************************************************************)
(* The bus driver's world: register fields, RX FIFO, endpoint objects.     *)
(*                                                                         *)
(* The driver's functions are operators on a record st:                    *)
(*   regs, in_regs, rx, eps_in, eps_out : the state they read and write,   *)
(*   log   : the register accesses and endpoint calls made, in order,      *)
(*   waits : for each busy-wait of the call, the number of reads it makes  *)
(*           before the hardware reports the awaited state,                *)
(*   completes : the IN transfers the controller completes while the call  *)
(*           runs (a critical section stops interrupts, not the            *)
(*           controller),                                                  *)
(*   pktcnt : what the call read in DIEPTSIZ.PKTCNT (nonzero or not),      *)
(*   panic : an assert!/index panic has aborted the call,                  *)
(*   ep_out, ep_in_complete, ep_setup : poll's three local masks.          *)
(***************************************************************************)

BufferStates == {"Empty", "DataOut", "DataSetup"}

\* One logged step: a register access or an endpoint call, on endpoint or
\* FIFO n (None where there is none).
Ev(op, n) == [op |-> op, n |-> n]

Logged(st, op, n) == [st EXCEPT !.log = Append(@, Ev(op, n))]

\* `while read_reg!(..) .. {}`: the register is read until the hardware
\* reports the awaited state, k times in all.
RECURSIVE wait_reads(_, _, _, _)
wait_reads(st, op, n, k) ==
    IF k <= 0 THEN st ELSE wait_reads(Logged(st, op, n), op, n, k - 1)

\* cmp::max
Max(a, b) == IF a >= b THEN a ELSE b

\* The register fields before the driver has programmed anything: no
\* interrupt pending, no endpoint interrupt unmasked, FIFO registers unwritten.
BusRegsInit ==
    [usbrst |-> FALSE, enumdne |-> FALSE, wkupint |-> FALSE, usbsusp |-> FALSE,
     iepm |-> {}, oepm |-> {},
     grxfsiz |-> 0, dad |-> 0,
     dieptxf |-> [n \in EPS |-> [fd |-> 0, fsa |-> 0]]]

NoSnap == [wakeup |-> FALSE, suspend |-> FALSE, enum_done |-> FALSE,
           reset |-> FALSE, iep |-> FALSE, rxflvl |-> FALSE]

\* No RX status entry read.
NoEntry == [epnum |-> None, bcnt |-> 0, status |-> 0]

\* `call` before any driver call.  addr is the argument of
\* set_device_address, after_bus_reset tells that the call before this one
\* was a poll that handled a bus reset.
NoBusCall == [op |-> "none", res |-> "none", ep_out |-> {}, ep_in_complete |-> {},
              ep_setup |-> {}, snap |-> NoSnap, entry |-> NoEntry, log |-> <<>>,
              fifo_top |-> 0, addr |-> None, pktcnt |-> FALSE,
              after_bus_reset |-> FALSE]

\* Every busy-wait over at its first read: of GRSTCTL.RXFFLSH (bus.rs 338),
\* of GRSTCTL.TXFFLSH (373), of both (94) and of GRSTCTL.AHBIDL (258).
NoWait == [rxfflsh |-> 1, txfflsh |-> 1, allfflsh |-> 1, ahbidl |-> 1]

\* No IN transfer completes while the call runs.  before_pktcnt: the
\* endpoints whose transfer completes after poll's read of GINTSTS and before
\* its read of DIEPTSIZ; before_xfrc: those whose transfer completes after
\* that and before its reads of DIEPINT.
NoCompletes == [before_pktcnt |-> {}, before_xfrc |-> {}]

\* The state the driver's functions work on.
BusState ==
    [regs |-> regs, in_regs |-> in_regs, rx |-> rx_fifo,
     eps_in |-> eps_in, eps_out |-> eps_out,
     log |-> <<>>, panic |-> FALSE, waits |-> NoWait, completes |-> NoCompletes,
     pktcnt |-> FALSE,
     ep_out |-> {}, ep_in_complete |-> {}, ep_setup |-> {}, fifo_top |-> 0,
     res |-> "none", entry |-> NoEntry, addr |-> None]

\* The longest busy-wait tried, in reads of the awaited register, and the
\* waits tried: the hardware is done at the first read or later.
MaxWait == 2

FlushWaits == 1 .. MaxWait

\* The state a call works on when its busy-waits take `waits` reads.
BusStateWaiting(waits) == [BusState EXCEPT !.waits = waits]

\* The same with the IN transfers `completes` completing while it runs.
BusStateDuring(waits, completes) ==
    [BusState EXCEPT !.waits = waits, !.completes = completes]

\* The controller completes the IN transfers of the endpoints ns: the packet
\* count is zero, DIEPINT.XFRC is set.
in_complete(st, ns) ==
    [st EXCEPT !.in_regs = [n \in EPS |-> IF n \in ns
                                          THEN [pktcnt |-> FALSE, xfrc |-> TRUE]
                                          ELSE @[n]]]

(***************************************************************************)
(* UsbBus::configure_all (bus.rs 38-115).                                  *)
(***************************************************************************)

\* bus.rs 42-46: total RX demand plus the variant's headroom.
rx_fifo_size(high_speed, rx_words) ==
    IF high_speed THEN rx_words + RX_HEADROOM_HS ELSE rx_words + RX_HEADROOM_FS

\* bus.rs 51, 67, 75, 83: cmp::max(self.endpoints_in[n].fifo_size_words(), 16).
tx_fifo_size(st, n) == Max(st.eps_in[n].fifo, TX_FIFO_FLOOR)

\* The TX FIFOs with fifo_top advanced ahead of the register write.
RECURSIVE program_tx_fifos_top_first(_, _)
program_tx_fifos_top_first(st, n) ==
    IF n >= NUM_ENDPOINTS THEN st
    ELSE LET fifo_size == tx_fifo_size(st, n)
             written == [st EXCEPT !.regs.dieptxf[n] =
                                       [fd |-> fifo_size, fsa |-> st.fifo_top + fifo_size],
                                   !.fifo_top = @ + fifo_size]
         IN  program_tx_fifos_top_first(Logged(written, "W_DIEPTXF", n), n + 1)

\* bus.rs 50-88: TX FIFO #n .. #3 in ascending order: write the depth /
\* start-address pair at fifo_top, advance fifo_top.
RECURSIVE program_tx_fifos(_, _)
program_tx_fifos(st, n) ==
    IF n >= NUM_ENDPOINTS THEN st
    ELSE LET fifo_size == tx_fifo_size(st, n)
             written == [st EXCEPT !.regs.dieptxf[n] =
                                       [fd |-> fifo_size, fsa |-> st.fifo_top],
                                   !.fifo_top = @ + fifo_size]
         IN  program_tx_fifos(Logged(written, "W_DIEPTXF", n), n + 1)

\* bus.rs 47-48: GRXFSIZ, then fifo_top = rx_fifo_size.
program_rx_fifo(st, high_speed, rx_words) ==
    LET size == rx_fifo_size(high_speed, rx_words)
    IN  Logged([st EXCEPT !.regs.grxfsiz = size, !.fifo_top = size],
               "W_GRXFSIZ", None)

\* bus.rs 93-94: the write of GRSTCTL that flushes the RX and all TX FIFOs,
\* then the reads of GRSTCTL that wait for the flush to end.
flush_all(st) ==
    wait_reads(Logged([st EXCEPT !.rx = <<>>], "FLUSH_RX_TX_ALL", None),
               "R_GRSTCTL_RXFFLSH_TXFFLSH", None, st.waits.allfflsh)

\* bus.rs 96-103: every initialized IN endpoint: unmask, configure.
RECURSIVE configure_in(_, _)
configure_in(st, n) ==
    IF n >= NUM_ENDPOINTS THEN st
    ELSE IF st.eps_in[n].init
         THEN configure_in(
                  Logged(Logged([st EXCEPT !.regs.iepm = @ \cup {n},
                                           !.eps_in[n].conf = TRUE],
                                "W_DAINTMSK_IN", n),
                         "CONFIGURE_IN", n),
                  n + 1)
         ELSE configure_in(st, n + 1)

\* The OUT loop unmasking the OUT interrupt of every initialized endpoint.
RECURSIVE configure_out_unmask_all(_, _)
configure_out_unmask_all(st, n) ==
    IF n >= NUM_ENDPOINTS THEN st
    ELSE IF st.eps_out[n].init
         THEN configure_out_unmask_all(
                  Logged(Logged([st EXCEPT !.regs.oepm = @ \cup {n},
                                           !.eps_out[n].conf = TRUE],
                                "W_DAINTMSK_OUT", n),
                         "CONFIGURE_OUT", n),
                  n + 1)
         ELSE configure_out_unmask_all(st, n + 1)

\* bus.rs 105-114: every initialized OUT endpoint: endpoint 0 is unmasked,
\* each is configured.
RECURSIVE configure_out(_, _)
configure_out(st, n) ==
    IF n >= NUM_ENDPOINTS THEN st
    ELSE IF st.eps_out[n].init
         THEN LET unmasked == IF n = 0
                              THEN Logged([st EXCEPT !.regs.oepm = @ \cup {0}],
                                          "W_DAINTMSK_OUT", 0)
                              ELSE st
              IN  configure_out(
                      Logged([unmasked EXCEPT !.eps_out[n].conf = TRUE],
                             "CONFIGURE_OUT", n),
                      n + 1)
         ELSE configure_out(st, n + 1)

\* The assertion compiled out: nothing is checked.
fifo_assert_off(st) == TRUE

\* bus.rs 90: assert!(fifo_top <= FIFO_DEPTH_WORDS).
fifo_assert_holds(st) == st.fifo_top <= FIFO_DEPTH_WORDS

\* configure_all with the assertion moved behind the flush and the endpoint
\* bring-up.
configure_all_late_assert(st, high_speed, rx_words) ==
    LET programmed == program_tx_fifos(program_rx_fifo(st, high_speed, rx_words), 0)
        brought_up == configure_out(configure_in(flush_all(programmed), 0), 0)
    IN  IF ~fifo_assert_holds(programmed)
        THEN Logged([brought_up EXCEPT !.panic = TRUE], "PANIC_ASSERT", None)
        ELSE brought_up

configure_all(st, high_speed, rx_words) ==
    LET programmed == program_tx_fifos(program_rx_fifo(st, high_speed, rx_words), 0)
    IN  IF ~fifo_assert_holds(programmed)
        THEN Logged([programmed EXCEPT !.panic = TRUE], "PANIC_ASSERT", None)
        ELSE configure_out(configure_in(flush_all(programmed), 0), 0)

(***************************************************************************)
(* UsbBus::deconfigure_all (bus.rs 117-130).                               *)
(***************************************************************************)

RECURSIVE deconfigure_in(_, _)
deconfigure_in(st, n) ==
    IF n >= NUM_ENDPOINTS THEN st
    ELSE deconfigure_in(Logged([st EXCEPT !.eps_in[n].conf = FALSE],
                               "DECONFIGURE_IN", n), n + 1)

RECURSIVE deconfigure_out(_, _)
deconfigure_out(st, n) ==
    IF n >= NUM_ENDPOINTS THEN st
    ELSE deconfigure_out(Logged([st EXCEPT !.eps_out[n].conf = FALSE],
                                "DECONFIGURE_OUT", n), n + 1)

deconfigure_all(st) ==
    LET masked == Logged([st EXCEPT !.regs.iepm = {}, !.regs.oepm = {}],
                         "W_DAINTMSK_CLEAR", None)
    IN  deconfigure_out(deconfigure_in(masked, 0), 0)

(***************************************************************************)
(* UsbBus::poll (bus.rs 323-433).                                          *)
(***************************************************************************)

\* GINTSTS.RXFLVL: the RX FIFO holds at least one status entry.
rxflvl(st) == st.rx # <<>>

\* GINTSTS.IEPINT: an IN endpoint whose interrupt is unmasked in DAINTMSK has
\* its transfer-complete bit pending.
iepint(st) == \E n \in EPS : st.in_regs[n].xfrc /\ n \in st.regs.iepm

\* bus.rs 327-329: the one read of GINTSTS.
read_gintsts(st) ==
    [wakeup |-> st.regs.wkupint, suspend |-> st.regs.usbsusp,
     enum_done |-> st.regs.enumdne, reset |-> st.regs.usbrst,
     iep |-> iepint(st), rxflvl |-> rxflvl(st)]

\* bus.rs 337-338: the write of GRSTCTL.RXFFLSH that flushes the RX FIFO,
\* then the reads of GRSTCTL that wait for the flush to end.
flush_rx(st) ==
    wait_reads(Logged([st EXCEPT !.rx = <<>>], "FLUSH_RX", None),
               "R_GRSTCTL_RXFFLSH", None, st.waits.rxfflsh)

\* The reset handling with the RX flush ahead of deconfigure_all.
poll_reset_flush_first(st, snap) ==
    IF snap.reset
    THEN deconfigure_all(flush_rx(
             Logged([st EXCEPT !.regs.usbrst = FALSE], "W_GINTSTS_USBRST", None)))
    ELSE st

\* bus.rs 331-339: reset detected: acknowledge, deconfigure_all, flush RX.
poll_reset(st, snap) ==
    IF snap.reset
    THEN flush_rx(deconfigure_all(
             Logged([st EXCEPT !.regs.usbrst = FALSE], "W_GINTSTS_USBRST", None)))
    ELSE st

\* bus.rs 363: read GRXSTSR: the entry at the head of the RX FIFO.  When the
\* FIFO is empty the register's content is not defined: `stale` is any entry.
read_grxstsr(st, stale) == IF st.rx # <<>> THEN Head(st.rx) ELSE stale

\* bus.rs 380, 383, 392: read GRXSTSP: the head entry leaves the RX FIFO.
pop_grxstsp(st) ==
    Logged([st EXCEPT !.rx = IF @ = <<>> THEN @ ELSE Tail(@)], "POP_GRXSTSP", None)

\* bus.rs 372-373: the write of GRSTCTL.TXFNUM / TXFFLSH that flushes TX
\* FIFO n, then the reads of GRSTCTL that wait for the flush to end.
flush_tx(st, n) ==
    wait_reads(Logged(st, "FLUSH_TX", n), "R_GRSTCTL_TXFFLSH", None,
               st.waits.txfflsh)

\* bus.rs 370-371: DIEPTSIZ.PKTCNT # 0 of endpoint_in::instance(epnum).  The
\* register block of a number beyond the driver's endpoints holds no packet.
pktcnt_pending(st, n) == n \in EPS /\ st.in_regs[n].pktcnt

\* bus.rs 371: the read of DIEPTSIZ.PKTCNT of IN endpoint n.
read_pktcnt(st, n) ==
    [Logged(st, "R_DIEPTSIZ_PKTCNT", n) EXCEPT !.pktcnt = pktcnt_pending(st, n)]

\* bus.rs 388: self.endpoints_out[epnum as usize] with epnum beyond the
\* collection: the index panics.
index_panic(st, n) == Logged([st EXCEPT !.panic = TRUE], "PANIC_INDEX", n)

\* The match with the SETUP arm marking the endpoint once the flush is
\* written, ahead of the wait for it.
poll_rx_status_mark_unwaited(st, e) ==
    CASE e.status = PKTSTS_OUT_RECEIVED ->
             Logged([st EXCEPT !.ep_out = @ \cup {e.epnum}], "MARK_OUT", e.epnum)
      [] e.status = PKTSTS_SETUP_RECEIVED ->
             LET read == read_pktcnt(st, e.epnum)
                 marked(w) == Logged([w EXCEPT !.ep_setup = @ \cup {e.epnum}],
                                     "MARK_SETUP", e.epnum)
             IN  IF read.pktcnt
                 THEN wait_reads(marked(Logged(read, "FLUSH_TX", e.epnum)),
                                 "R_GRSTCTL_TXFFLSH", None, st.waits.txfflsh)
                 ELSE marked(read)
      [] e.status \in {PKTSTS_OUT_COMPLETE, PKTSTS_SETUP_COMPLETE} ->
             pop_grxstsp(Logged(st, "W_DOEPCTL_CNAK_EPENA", e.epnum))
      [] OTHER -> pop_grxstsp(st)

\* bus.rs 364-385: the match on the entry's packet status.
poll_rx_status(st, e) ==
    CASE e.status = PKTSTS_OUT_RECEIVED ->
             Logged([st EXCEPT !.ep_out = @ \cup {e.epnum}], "MARK_OUT", e.epnum)
      [] e.status = PKTSTS_SETUP_RECEIVED ->
             LET read == read_pktcnt(st, e.epnum)
                 flushed == IF read.pktcnt
                            THEN flush_tx(read, e.epnum)
                            ELSE read
             IN  Logged([flushed EXCEPT !.ep_setup = @ \cup {e.epnum}],
                        "MARK_SETUP", e.epnum)
      [] e.status \in {PKTSTS_OUT_COMPLETE, PKTSTS_SETUP_COMPLETE} ->
             pop_grxstsp(Logged(st, "W_DOEPCTL_CNAK_EPENA", e.epnum))
      [] OTHER -> pop_grxstsp(st)

\* EndpointBuffer::fill_from_fifo(data_size, is_setup): on success the
\* buffer holds the packet (DataSetup / DataOut); on failure it is left as
\* it was.
fill_from_fifo(st, n, data_size, is_setup, fill_ok) ==
    IF fill_ok
    THEN Logged([st EXCEPT !.eps_out[n].buf =
                               IF is_setup THEN "DataSetup" ELSE "DataOut"],
                "FILL_FROM_FIFO", n)
    ELSE Logged(st, "FILL_FROM_FIFO_ERR", n)

\* The fill without the check of the buffer state.
poll_rx_fill_unchecked(st, e, fill_ok) ==
    IF e.status = PKTSTS_OUT_RECEIVED \/ e.status = PKTSTS_SETUP_RECEIVED
    THEN IF e.epnum \notin EPS
         THEN index_panic(st, e.epnum)
         ELSE fill_from_fifo(pop_grxstsp(st), e.epnum, e.bcnt,
                             e.status = PKTSTS_SETUP_RECEIVED, fill_ok)
    ELSE st

\* The fill with the tag inverted: an OUT packet is filled as a SETUP packet
\* and a SETUP packet as an OUT packet.
poll_rx_fill_swapped_tag(st, e, fill_ok) ==
    IF e.status = PKTSTS_OUT_RECEIVED \/ e.status = PKTSTS_SETUP_RECEIVED
    THEN IF e.epnum \notin EPS
         THEN index_panic(st, e.epnum)
         ELSE IF st.eps_out[e.epnum].buf = "Empty"
              THEN fill_from_fifo(pop_grxstsp(st), e.epnum, e.bcnt,
                                  e.status = PKTSTS_OUT_RECEIVED, fill_ok)
              ELSE st
    ELSE st

\* bus.rs 387-397: an OUT / SETUP packet is popped and drained only into an
\* Empty buffer.
poll_rx_fill(st, e, fill_ok) ==
    IF e.status = PKTSTS_OUT_RECEIVED \/ e.status = PKTSTS_SETUP_RECEIVED
    THEN IF e.epnum \notin EPS
         THEN index_panic(st, e.epnum)
         ELSE IF st.eps_out[e.epnum].buf = "Empty"
              THEN fill_from_fifo(pop_grxstsp(st), e.epnum, e.bcnt,
                                  e.status = PKTSTS_SETUP_RECEIVED, fill_ok)
              ELSE st
    ELSE st

\* bus.rs 362-398.
poll_rx(st, snap, stale, fill_ok) ==
    IF snap.rxflvl
    THEN LET e == read_grxstsr(st, stale)
             read == [Logged(st, "R_GRXSTSR", None) EXCEPT !.entry = e]
         IN  poll_rx_fill(poll_rx_status(read, e), e, fill_ok)
    ELSE st

\* bus.rs 401-409: DIEPINT.XFRC of every initialized IN endpoint is read;
\* where it is set it is acknowledged and the endpoint marked.
RECURSIVE poll_in_complete(_, _)
poll_in_complete(st, n) ==
    IF n >= NUM_ENDPOINTS THEN st
    ELSE IF st.eps_in[n].init
         THEN LET read == Logged(st, "R_DIEPINT_XFRC", n)
              IN  IF st.in_regs[n].xfrc
                  THEN poll_in_complete(
                           Logged([read EXCEPT !.in_regs[n].xfrc = FALSE,
                                               !.ep_in_complete = @ \cup {n}],
                                  "W_DIEPINT_XFRC", n),
                           n + 1)
                  ELSE poll_in_complete(read, n + 1)
         ELSE poll_in_complete(st, n + 1)

\* bus.rs 412-424: every initialized OUT endpoint is marked by its buffer
\* state.
RECURSIVE poll_out_state(_, _)
poll_out_state(st, n) ==
    IF n >= NUM_ENDPOINTS THEN st
    ELSE IF st.eps_out[n].init /\ st.eps_out[n].buf = "DataOut"
         THEN poll_out_state([st EXCEPT !.ep_out = @ \cup {n}], n + 1)
         ELSE IF st.eps_out[n].init /\ st.eps_out[n].buf = "DataSetup"
              THEN poll_out_state([st EXCEPT !.ep_setup = @ \cup {n}], n + 1)
              ELSE poll_out_state(st, n + 1)

\* bus.rs 426-430.
poll_result(st) ==
    IF (st.ep_in_complete \cup st.ep_out \cup st.ep_setup) # {}
    THEN [st EXCEPT !.res = "Data"]
    ELSE [st EXCEPT !.res = "None"]

\* The data-event branch with the IN endpoints scanned whatever IEPINT says.
poll_data_scan_always(st, snap, stale, fill_ok) ==
    LET after_rx == poll_rx(st, snap, stale, fill_ok)
        scanned == in_complete(after_rx, st.completes.before_xfrc)
    IN  IF after_rx.panic THEN after_rx
        ELSE poll_result(poll_out_state(poll_in_complete(scanned, 0), 0))

\* bus.rs 354-431: the data-event branch.  The transfers that complete
\* after the read of DIEPTSIZ have completed when DIEPINT is read.
poll_data(st, snap, stale, fill_ok) ==
    LET after_rx == poll_rx(st, snap, stale, fill_ok)
        scanned == in_complete(after_rx, st.completes.before_xfrc)
        after_in == IF snap.iep THEN poll_in_complete(scanned, 0) ELSE scanned
    IN  IF after_rx.panic THEN after_rx
        ELSE poll_result(poll_out_state(after_in, 0))

\* The classification with wakeup tested before enumeration done.
poll_classify_wakeup_first(st, snap, stale, fill_ok) ==
    IF snap.wakeup
    THEN [Logged([st EXCEPT !.regs.wkupint = FALSE], "W_GINTSTS_WKUPINT", None)
             EXCEPT !.res = "Resume"]
    ELSE IF snap.enum_done
    THEN [Logged([st EXCEPT !.regs.enumdne = FALSE], "W_GINTSTS_ENUMDNE", None)
             EXCEPT !.res = "Reset"]
    ELSE IF snap.suspend
    THEN [Logged([st EXCEPT !.regs.usbsusp = FALSE], "W_GINTSTS_USBSUSP", None)
             EXCEPT !.res = "Suspend"]
    ELSE poll_data(st, snap, stale, fill_ok)

\* The classification acknowledging wakeup and suspend along with
\* enumeration done.
poll_classify_ack_all(st, snap, stale, fill_ok) ==
    IF snap.enum_done
    THEN [Logged([st EXCEPT !.regs.enumdne = FALSE, !.regs.wkupint = FALSE,
                            !.regs.usbsusp = FALSE],
                 "W_GINTSTS_ENUMDNE", None)
             EXCEPT !.res = "Reset"]
    ELSE IF snap.wakeup
    THEN [Logged([st EXCEPT !.regs.wkupint = FALSE], "W_GINTSTS_WKUPINT", None)
             EXCEPT !.res = "Resume"]
    ELSE IF snap.suspend
    THEN [Logged([st EXCEPT !.regs.usbsusp = FALSE], "W_GINTSTS_USBSUSP", None)
             EXCEPT !.res = "Suspend"]
    ELSE poll_data(st, snap, stale, fill_ok)

\* bus.rs 341-354: the first of enumeration done, wakeup, suspend that is set
\* is acknowledged and returned; with none set the data events are evaluated.
poll_classify(st, snap, stale, fill_ok) ==
    IF snap.enum_done
    THEN [Logged([st EXCEPT !.regs.enumdne = FALSE], "W_GINTSTS_ENUMDNE", None)
             EXCEPT !.res = "Reset"]
    ELSE IF snap.wakeup
    THEN [Logged([st EXCEPT !.regs.wkupint = FALSE], "W_GINTSTS_WKUPINT", None)
             EXCEPT !.res = "Resume"]
    ELSE IF snap.suspend
    THEN [Logged([st EXCEPT !.regs.usbsusp = FALSE], "W_GINTSTS_USBSUSP", None)
             EXCEPT !.res = "Suspend"]
    ELSE poll_data(st, snap, stale, fill_ok)

\* bus.rs 323-433: GINTSTS is read once; what the controller completes
\* after that read is not in the snapshot.
poll_call(st, stale, fill_ok) ==
    LET snap == read_gintsts(st)
        read == in_complete(Logged(st, "R_GINTSTS", None),
                            st.completes.before_pktcnt)
    IN  poll_classify(poll_reset(read, snap), snap, stale, fill_ok)

(***************************************************************************)
(* UsbBus::reset (bus.rs 313-321).                                         *)
(***************************************************************************)

\* reset without the write of DCFG.DAD.
reset_call_keeps_address(st, high_speed, rx_words) ==
    configure_all(st, high_speed, rx_words)

reset_call(st, high_speed, rx_words) ==
    LET configured == configure_all(st, high_speed, rx_words)
    IN  IF configured.panic THEN configured
        ELSE Logged([configured EXCEPT !.regs.dad = 0], "W_DCFG_DAD", None)

(***************************************************************************)
(* UsbBus::set_device_address (bus.rs 435-441).                            *)
(***************************************************************************)

\* Width in bits of the DCFG.DAD field.
DAD_WIDTH == 7

\* modify_reg!(.., DCFG, DAD: addr as u32): the value is cut to the field.
set_device_address_call(st, addr) ==
    Logged([st EXCEPT !.regs.dad = addr % (2 ^ DAD_WIDTH), !.addr = addr],
           "W_DCFG_DAD", None)

(***************************************************************************)
(* UsbBus::enable (bus.rs 250-311).                                        *)
(***************************************************************************)

\* bus.rs 261-309, the register accesses of the critical section that
\* follow the wait for AHB idle, in order.  Of the fields the model keeps,
\* only the pending bits of GINTSTS change: the write of 0xffffffff clears
\* them.
EnableAccesses ==
    <<"W_GUSBCFG", "W_GCCFG_NOVBUSSENS", "W_PCGCCTL",
      "W_DCTL_SDIS_1", "W_DCFG_DSPD", "W_DIEPMSK", "W_GINTMSK", "W_GINTSTS_ALL",
      "W_GAHBCFG_GINT", "W_GCCFG_PWRDWN", "W_DCTL_SDIS_0">>

\* bus.rs 252: USB::enable(), "Enable USB_OTG in RCC": the access to the
\* clock control register that switches the peripheral's clock on.
usb_enable(st) == Logged(st, "USB_ENABLE", None)

\* bus.rs 252-310: USB::enable(); then, in the critical section,
\* GRSTCTL.AHBIDL is read until it is set; then the accesses above.
enable_call(st) ==
    LET idle == wait_reads(usb_enable(st), "R_GRSTCTL_AHBIDL", None,
                           st.waits.ahbidl)
    IN  [idle EXCEPT !.regs.usbrst = FALSE, !.regs.enumdne = FALSE,
                     !.regs.wkupint = FALSE, !.regs.usbsusp = FALSE,
                     !.log = @ \o [i \in 1 .. Len(EnableAccesses) |->
                                      Ev(EnableAccesses[i], None)],
                     !.res = "done"]

(***************************************************************************)
(* The critical sections: interrupt::free(|cs| ...) around the body of     *)
(* enable, reset, poll and set_device_address (bus.rs 254, 314, 324, 436), *)
(* and the `cs: &CriticalSection` that configure_all and deconfigure_all   *)
(* demand of their caller (bus.rs 38, 117).                                *)
(***************************************************************************)

CtxCalls == {"enable", "reset", "poll", "set_device_address",
             "configure_all", "deconfigure_all"}

\* The calls that run a critical section: interrupt::free in enable, reset,
\* poll and set_device_address, the caller's for configure_all and
\* deconfigure_all.
guarded(op) == op \in CtxCalls

\* The number of accesses a call makes ahead of its critical section:
\* enable calls USB::enable() (bus.rs 252) before interrupt::free (254), the
\* bodies of the other calls lie inside the section whole.
ahead_of_section(op) == IF op = "enable" THEN 1 ELSE 0

\* The logged steps that are no register access: poll's local masks and the
\* panics.
LocalOps == {"MARK_OUT", "MARK_SETUP", "PANIC_ASSERT", "PANIC_INDEX"}

IsAccess(e) == e.op \notin LocalOps

\* The register accesses and endpoint calls of a call, in order.
AccessLog(log) == SelectSeq(log, IsAccess)

(***************************************************************************)
(* The bus driver as a state machine.                                      *)
(***************************************************************************)

\* The status entries the RX FIFO presents.
RxByteCounts == {8}

RxStatuses == {PKTSTS_OUT_RECEIVED, PKTSTS_SETUP_RECEIVED, PKTSTS_OUT_COMPLETE,
               PKTSTS_SETUP_COMPLETE, PKTSTS_OTHER}

RxEntries(eps) == [epnum : eps, bcnt : RxByteCounts, status : RxStatuses]

NoTraffic == [traffic |-> {}, irqs |-> FALSE, waits |-> FlushWaits]

\* The endpoint objects before any bring-up: `in_init`, `out_init` are the
\* numbers of the initialized endpoints, fifo_words their fifo_size_words().
EndpointsIn(in_init, fifo_words) ==
    [n \in EPS |-> [init |-> n \in in_init, fifo |-> fifo_words[n], conf |-> FALSE]]

EndpointsOut(out_init) ==
    [n \in EPS |-> [init |-> n \in out_init, buf |-> "Empty", conf |-> FALSE]]

InRegsInit == [n \in EPS |-> [pktcnt |-> FALSE, xfrc |-> FALSE]]

\* The bus part of the state while only the allocator is exercised.
BusIdle ==
    /\ hs = FALSE
    /\ total_rx = 0
    /\ eps_in = EndpointsIn({}, [n \in EPS |-> 0])
    /\ eps_out = EndpointsOut({})
    /\ regs = BusRegsInit
    /\ in_regs = InRegsInit
    /\ rx_fifo = <<>>
    /\ call = NoBusCall
    /\ env = NoTraffic

\* The allocator part of the state while only the bus is exercised.
AllocIdle ==
    /\ endpoints_in = 0
    /\ endpoints_out = 0
    /\ overflow_checks = FALSE
    /\ alloc_last = NoCall
    /\ handed = [d \in Directions |-> {}]

\* No driver call in progress in a context.
NoCtx == [op |-> "none", phase |-> "idle", pc |-> 0,
          stale |-> NoEntry, fill_ok |-> TRUE, addr |-> None,
          waits |-> NoWait]

\* Both contexts idle, interrupts enabled.
CtxIdle ==
    /\ ctx = [c \in {"fg", "isr"} |-> NoCtx]
    /\ primask = FALSE

\* A driver call returns: what it wrote becomes the state, what it returned
\* and logged becomes `call`.
BusReturn(st, op, snap) ==
    /\ regs' = st.regs
    /\ in_regs' = st.in_regs
    /\ rx_fifo' = st.rx
    /\ eps_in' = st.eps_in
    /\ eps_out' = st.eps_out
    /\ panicked' = st.panic
    /\ call' = [op |-> op, res |-> IF st.panic THEN "Panic" ELSE st.res,
                ep_out |-> st.ep_out, ep_in_complete |-> st.ep_in_complete,
                ep_setup |-> st.ep_setup, snap |-> snap, entry |-> st.entry,
                log |-> st.log, fifo_top |-> st.fifo_top, addr |-> st.addr,
                pktcnt |-> st.pktcnt,
                after_bus_reset |-> (call.op = "poll" /\ call.snap.reset)]
    /\ UNCHANGED <<hs, total_rx, env, endpoints_in, endpoints_out,
                   overflow_checks, alloc_last, handed>>

\* A driver call made in one piece, from entry to return.
BusCommit(st, op, snap) ==
    /\ BusReturn(st, op, snap)
    /\ UNCHANGED ctx_vars

\* Anything but a driver call: the record of the last call is dropped.
EnvCommit ==
    /\ call' = NoBusCall
    /\ UNCHANGED <<hs, total_rx, env, alloc_vars, ctx_vars>>

\* ---- the FIFO partition alone ------------------------------------------

\* Total RX demands and IN endpoint FIFO sizes (in words) tried.
RxDemands == {0, 64, 226, 236, 256, 310}

TxSizes == {0, 16, 64}

FifoInit ==
    /\ AllocIdle
    /\ CtxIdle
    /\ panicked = FALSE
    /\ hs \in BOOLEAN
    /\ total_rx \in RxDemands
    /\ \E fifo_words \in [EPS -> TxSizes] :
           eps_in = EndpointsIn({n \in EPS : fifo_words[n] > 0}, fifo_words)
    /\ eps_out = EndpointsOut({0})
    /\ regs = BusRegsInit
    /\ in_regs = InRegsInit
    /\ rx_fifo = <<>>
    /\ call = NoBusCall
    /\ env = NoTraffic

configure_all_step ==
    /\ ~panicked
    /\ call.op = "none"
    /\ \E waits \in env.waits :
           BusCommit([configure_all(BusStateWaiting([NoWait EXCEPT !.allfflsh = waits]),
                                    hs, total_rx)
                         EXCEPT !.res = "done"],
                     "configure_all", NoSnap)

FifoNext == configure_all_step

SpecFifo == FifoInit /\ [][FifoNext]_vars

\* ---- poll, reset and the hardware ---------------------------------------

\* The endpoint sets of the devices tried: a control endpoint alone, and a
\* control endpoint with one more endpoint pair.
PollConfigs == {[in_init |-> {0}, out_init |-> {0}],
                [in_init |-> {0, 1}, out_init |-> {0, 1}]}

\* fifo_size_words() of an initialized IN endpoint (64-byte packets) and the
\* RX demand of the devices tried.
PollFifoWords == 16

\* The hardware behaviours tried: every interrupt with traffic on the control
\* endpoint and busy-waits of every length, and bus resets with traffic on
\* endpoints 0 and 1 and flushes that are over at the first read.  The
\* traffic is for endpoints the device has (SpecRx has the entries of other
\* endpoint numbers).
PollEnvs == {[traffic |-> {0}, irqs |-> TRUE, waits |-> FlushWaits],
             [traffic |-> {0, 1}, irqs |-> FALSE, waits |-> {1}]}

PollRxWords == 32

PollInit ==
    /\ AllocIdle
    /\ CtxIdle
    /\ panicked = FALSE
    /\ hs = FALSE
    /\ total_rx = PollRxWords
    /\ \E c \in PollConfigs :
          /\ eps_in = EndpointsIn(c.in_init,
                          [n \in EPS |-> IF n \in c.in_init THEN PollFifoWords ELSE 0])
          /\ eps_out = EndpointsOut(c.out_init)
          /\ env \in {e \in PollEnvs : e.traffic \subseteq c.out_init}
    /\ regs = BusRegsInit
    /\ in_regs = InRegsInit
    /\ rx_fifo = <<>>
    /\ call = NoBusCall

\* poll reads the RX status when none of enumeration done, wakeup and
\* suspend is pending and the RX FIFO is not empty (bus.rs 341-362).
PollReadsRx ==
    /\ ~regs.enumdne /\ ~regs.wkupint /\ ~regs.usbsusp
    /\ rx_fifo # <<>>

\* What a read of GRXSTSR may return should poll read it after its own flush
\* has emptied the RX FIFO (otherwise the read returns the head entry).
StaleChoices ==
    IF PollReadsRx /\ regs.usbrst THEN RxEntries(env.traffic) ELSE {NoEntry}

\* The entry poll reads, should it read one.
PollEntry(stale) == IF regs.usbrst THEN stale ELSE Head(rx_fifo)

\* The outcomes of fill_from_fifo, should poll call it: it does for an OUT
\* or SETUP packet whose endpoint's buffer is Empty (bus.rs 387-397).
FillChoices(stale) ==
    IF /\ PollReadsRx
       /\ PollEntry(stale).status \in {PKTSTS_OUT_RECEIVED, PKTSTS_SETUP_RECEIVED}
       /\ PollEntry(stale).epnum \in EPS
    THEN BOOLEAN
    ELSE {TRUE}

\* The IN transfers that may complete between poll's read of GINTSTS and
\* its read of DIEPTSIZ.PKTCNT: that of the endpoint of the SETUP entry
\* read, should a packet be pending on it (bus.rs 327, 371).  A completion
\* ahead of the read of GINTSTS is HwInComplete ahead of poll.
EarlyChoices(stale) ==
    IF /\ PollReadsRx
       /\ PollEntry(stale).status = PKTSTS_SETUP_RECEIVED
       /\ PollEntry(stale).epnum \in env.traffic
       /\ pktcnt_pending(BusState, PollEntry(stale).epnum)
    THEN SUBSET {PollEntry(stale).epnum}
    ELSE {{}}

\* poll reads DIEPINT of the initialized IN endpoints when none of
\* enumeration done, wakeup and suspend is pending, IEPINT is, and no index
\* panic has ended the call (bus.rs 341-354, 388, 400-404).
PollScans(stale) ==
    /\ ~regs.enumdne /\ ~regs.wkupint /\ ~regs.usbsusp
    /\ iepint(BusState)
    /\ ~(/\ PollReadsRx
         /\ PollEntry(stale).status \in {PKTSTS_OUT_RECEIVED, PKTSTS_SETUP_RECEIVED}
         /\ PollEntry(stale).epnum \notin EPS)

\* The IN transfers that may complete after that and before poll's reads of
\* DIEPINT.XFRC, should it read them (bus.rs 400-404).  A completion after
\* the reads is HwInComplete after poll.
LateChoices(stale, early) ==
    IF PollScans(stale)
    THEN SUBSET {n \in (env.traffic \cap EPS) \ early :
                    in_regs[n].pktcnt /\ eps_in[n].init}
    ELSE {{}}

\* The lengths of the busy-waits of poll, should it flush a FIFO: the RX
\* FIFO after a bus reset, a TX FIFO for a SETUP entry that meets a pending
\* packet count (bus.rs 337-338, 371-373).  Each wait ends on its own.
RxWaitChoices == IF regs.usbrst THEN env.waits ELSE {1}

TxWaitChoices(stale, early) ==
    IF /\ PollReadsRx
       /\ PollEntry(stale).status = PKTSTS_SETUP_RECEIVED
       /\ pktcnt_pending(BusState, PollEntry(stale).epnum)
       /\ PollEntry(stale).epnum \notin early
    THEN env.waits
    ELSE {1}

WaitChoices(stale, early) ==
    {[NoWait EXCEPT !.rxfflsh = r, !.txfflsh = t] :
        r \in RxWaitChoices, t \in TxWaitChoices(stale, early)}

poll ==
    /\ ~panicked
    /\ \E stale \in StaleChoices :
       \E fill_ok \in FillChoices(stale), early \in EarlyChoices(stale) :
       \E late \in LateChoices(stale, early), waits \in WaitChoices(stale, early) :
           BusCommit(poll_call(BusStateDuring(waits, [before_pktcnt |-> early,
                                                      before_xfrc |-> late]),
                               stale, fill_ok),
                     "poll", read_gintsts(BusState))

reset ==
    /\ ~panicked
    /\ \E waits \in env.waits :
           BusCommit([reset_call(BusStateWaiting([NoWait EXCEPT !.allfflsh = waits]),
                                 hs, total_rx)
                         EXCEPT !.res = "done"],
                     "reset", NoSnap)

\* The controller raises an interrupt bit of GINTSTS.
HwBusReset ==
    /\ ~regs.usbrst
    /\ regs' = [regs EXCEPT !.usbrst = TRUE]
    /\ UNCHANGED <<in_regs, rx_fifo, eps_in, eps_out>>
    /\ EnvCommit

HwEnumDone ==
    /\ env.irqs
    /\ ~regs.enumdne
    /\ regs' = [regs EXCEPT !.enumdne = TRUE]
    /\ UNCHANGED <<in_regs, rx_fifo, eps_in, eps_out>>
    /\ EnvCommit

HwWakeup ==
    /\ env.irqs
    /\ ~regs.wkupint
    /\ regs' = [regs EXCEPT !.wkupint = TRUE]
    /\ UNCHANGED <<in_regs, rx_fifo, eps_in, eps_out>>
    /\ EnvCommit

HwSuspend ==
    /\ env.irqs
    /\ ~regs.usbsusp
    /\ regs' = [regs EXCEPT !.usbsusp = TRUE]
    /\ UNCHANGED <<in_regs, rx_fifo, eps_in, eps_out>>
    /\ EnvCommit

\* The controller pushes a status entry onto the RX FIFO.
HwReceive ==
    /\ Len(rx_fifo) < MaxRx
    /\ \E e \in RxEntries(env.traffic) : rx_fifo' = Append(rx_fifo, e)
    /\ UNCHANGED <<regs, in_regs, eps_in, eps_out>>
    /\ EnvCommit

\* The device stack queues an IN packet on endpoint n, which has none in
\* flight and no completion unacknowledged: its packet count becomes nonzero.
EpInWrite ==
    /\ \E n \in env.traffic \cap EPS :
          /\ ~in_regs[n].pktcnt
          /\ ~in_regs[n].xfrc
          /\ in_regs' = [in_regs EXCEPT ![n].pktcnt = TRUE]
    /\ UNCHANGED <<regs, rx_fifo, eps_in, eps_out>>
    /\ EnvCommit

\* The controller completes the IN transfer of endpoint n.
HwInComplete ==
    /\ \E n \in env.traffic \cap EPS :
          /\ in_regs[n].pktcnt
          /\ in_regs' = in_complete(BusState, {n}).in_regs
    /\ UNCHANGED <<regs, rx_fifo, eps_in, eps_out>>
    /\ EnvCommit

\* The device stack reads the packet of OUT endpoint n: the endpoint object
\* sets its buffer back to Empty.
ConsumerRead ==
    /\ \E n \in EPS :
          /\ eps_out[n].buf # "Empty"
          /\ eps_out' = [eps_out EXCEPT ![n].buf = "Empty"]
    /\ UNCHANGED <<regs, in_regs, rx_fifo, eps_in>>
    /\ EnvCommit

PollNext ==
    \/ poll
    \/ reset
    \/ HwBusReset
    \/ HwEnumDone
    \/ HwWakeup
    \/ HwSuspend
    \/ HwReceive
    \/ EpInWrite
    \/ HwInComplete
    \/ ConsumerRead

SpecPoll == PollInit /\ [][PollNext]_vars

\* ---- status entries of every endpoint number -------------------------------

\* GRXSTSR.EPNUM is a 4-bit field: the entries tried carry endpoint numbers
\* up to MaxEpnum, one beyond the driver's endpoints 0..3.
MaxEpnum == 4

RxInit ==
    /\ AllocIdle
    /\ CtxIdle
    /\ panicked = FALSE
    /\ hs = FALSE
    /\ total_rx = PollRxWords
    /\ eps_in = EndpointsIn({0, 1},
                    [n \in EPS |-> IF n \in {0, 1} THEN PollFifoWords ELSE 0])
    /\ eps_out = EndpointsOut({0, 1})
    /\ regs = BusRegsInit
    /\ in_regs = InRegsInit
    /\ rx_fifo = <<>>
    /\ call = NoBusCall
    /\ env = [traffic |-> {1, MaxEpnum}, irqs |-> TRUE, waits |-> FlushWaits]

SpecRx == RxInit /\ [][PollNext]_vars

\* ---- bring-up, teardown and the device address ---------------------------

\* The sets of initialized endpoint numbers tried, per direction.
InitSets == {{}, {0}, {1, 3}, {0, 1, 2, 3}}

\* The arguments of set_device_address tried: a u8 within and beyond the
\* 7-bit field.
DeviceAddresses == {127, 200}

\* Every pair of endpoint sets; packets arrive for the initialized OUT
\* endpoints 0 and 1; every busy-wait takes MaxWait reads.
BringUpInit ==
    /\ AllocIdle
    /\ CtxIdle
    /\ panicked = FALSE
    /\ hs = FALSE
    /\ total_rx = PollRxWords
    /\ \E in_init \in InitSets, out_init \in InitSets :
          /\ eps_in = EndpointsIn(in_init,
                          [n \in EPS |-> IF n \in in_init THEN PollFifoWords ELSE 0])
          /\ eps_out = EndpointsOut(out_init)
          /\ env = [traffic |-> out_init \cap {0, 1}, irqs |-> FALSE,
                    waits |-> {MaxWait}]
    /\ regs = BusRegsInit
    /\ in_regs = InRegsInit
    /\ rx_fifo = <<>>
    /\ call = NoBusCall

set_device_address ==
    /\ ~panicked
    /\ \E addr \in DeviceAddresses :
          BusCommit([set_device_address_call(BusState, addr) EXCEPT !.res = "done"],
                    "set_device_address", NoSnap)

BringUpNext ==
    \/ poll
    \/ reset
    \/ set_device_address
    \/ HwBusReset
    \/ HwReceive
    \/ ConsumerRead

SpecBringUp == BringUpInit /\ [][BringUpNext]_vars

\* ---- two execution contexts ----------------------------------------------

\* The hardware raises bus resets between the calls (no packet arrives: the
\* longest register sequences are those of enable, of configure_all and of
\* a poll that handles a bus reset).
\* One core: the interrupt handler preempts the foreground whenever
\* interrupts are enabled and runs to its end before the foreground goes on.
Running == IF ctx["isr"].phase # "idle" THEN "isr" ELSE "fg"

AllIdle == \A c \in {"fg", "isr"} : ctx[c].phase = "idle"

\* The call in progress in context c, run on the state as it is now.
ctx_call(c) ==
    LET op == ctx[c].op
        st == BusStateWaiting(ctx[c].waits)
    IN  CASE op = "enable" -> enable_call(st)
          [] op = "reset" -> [reset_call(st, hs, total_rx) EXCEPT !.res = "done"]
          [] op = "poll" -> poll_call(st, ctx[c].stale, ctx[c].fill_ok)
          [] op = "set_device_address" ->
                 [set_device_address_call(st, ctx[c].addr) EXCEPT !.res = "done"]
          [] op = "configure_all" ->
                 [configure_all(st, hs, total_rx) EXCEPT !.res = "done"]
          [] OTHER -> [deconfigure_all(st) EXCEPT !.res = "done"]

\* The number of register accesses and endpoint calls the call in progress
\* in c makes.
ctx_len(c) == Len(AccessLog(ctx_call(c).log))

CtxInit ==
    /\ AllocIdle
    /\ CtxIdle
    /\ panicked = FALSE
    /\ hs = FALSE
    /\ total_rx = PollRxWords
    /\ eps_in = EndpointsIn({0}, [n \in EPS |-> IF n = 0 THEN PollFifoWords ELSE 0])
    /\ eps_out = EndpointsOut({0})
    /\ env = [traffic |-> {0}, irqs |-> FALSE, waits |-> FlushWaits]
    /\ regs = BusRegsInit
    /\ in_regs = InRegsInit
    /\ rx_fifo = <<>>
    /\ call = NoBusCall

\* Context c calls `op`.  The foreground calls when nothing is in progress,
\* the interrupt handler starts whenever interrupts are enabled.
CtxIssue(c, op) ==
    /\ ~panicked
    /\ ctx[c].phase = "idle"
    /\ IF c = "isr" THEN ~primask ELSE ctx["isr"].phase = "idle"
    /\ \E stale \in (IF op = "poll" THEN StaleChoices ELSE {NoEntry}) :
       \E fill_ok \in (IF op = "poll" THEN FillChoices(stale) ELSE {TRUE}),
          addr \in (IF op = "set_device_address" THEN DeviceAddresses ELSE {None}),
          waits \in (IF op = "enable"
                     THEN {[NoWait EXCEPT !.ahbidl = w] : w \in env.waits}
                     ELSE IF op \in {"reset", "configure_all"}
                     THEN {[NoWait EXCEPT !.allfflsh = w] : w \in env.waits}
                     ELSE IF op = "poll" THEN WaitChoices(stale, {})
                     ELSE {NoWait}) :
          ctx' = [ctx EXCEPT ![c] = [op |-> op, phase |-> "called", pc |-> 0,
                                     stale |-> stale, fill_ok |-> fill_ok,
                                     addr |-> addr, waits |-> waits]]
    /\ UNCHANGED <<primask, alloc_vars, bus_vars>>

FgCall == \E op \in CtxCalls : CtxIssue("fg", op)

IsrCall == \E op \in CtxCalls : CtxIssue("isr", op)

\* The running context's call makes an access ahead of its critical
\* section, interrupts as they are: USB::enable() in enable (bus.rs 252).
CtxAhead ==
    /\ ctx[Running].phase = "called"
    /\ ctx[Running].pc < ahead_of_section(ctx[Running].op)
    /\ ctx' = [ctx EXCEPT ![Running].pc = @ + 1]
    /\ UNCHANGED <<primask, alloc_vars, bus_vars>>

\* interrupt::free: the running context's call disables interrupts and
\* enters its body.
CtxEnter ==
    /\ ctx[Running].phase = "called"
    /\ ctx[Running].pc >= ahead_of_section(ctx[Running].op)
    /\ ctx' = [ctx EXCEPT ![Running].phase = "inside"]
    /\ primask' = (primask \/ guarded(ctx[Running].op))
    /\ UNCHANGED <<alloc_vars, bus_vars>>

\* The running context's call makes its next register access.
CtxAccess ==
    /\ ctx[Running].phase = "inside"
    /\ ctx[Running].pc < ctx_len(Running)
    /\ ctx' = [ctx EXCEPT ![Running].pc = @ + 1]
    /\ UNCHANGED <<primask, alloc_vars, bus_vars>>

\* The running context's call has made its accesses: it leaves the critical
\* section and returns.
CtxReturn ==
    /\ ctx[Running].phase = "inside"
    /\ ctx[Running].pc >= ctx_len(Running)
    /\ BusReturn(ctx_call(Running), ctx[Running].op,
                 IF ctx[Running].op = "poll" THEN read_gintsts(BusState) ELSE NoSnap)
    /\ ctx' = [ctx EXCEPT ![Running] = NoCtx]
    /\ primask' = FALSE

CtxHwBusReset == AllIdle /\ HwBusReset

CtxNext ==
    \/ FgCall
    \/ IsrCall
    \/ CtxAhead
    \/ CtxEnter
    \/ CtxAccess
    \/ CtxReturn
    \/ CtxHwBusReset

SpecCtx == CtxInit /\ [][CtxNext]_vars

(***************************************************************************)
(* The allocator as a state machine.                                       *)
(***************************************************************************)

\* EndpointAllocator::new (bus.rs 165-170).
AllocInit ==
    /\ BusIdle
    /\ CtxIdle
    /\ endpoints_in = 0
    /\ endpoints_out = 0
    /\ overflow_checks \in BOOLEAN
    /\ panicked = FALSE
    /\ alloc_last = NoCall
    /\ handed = [d \in Directions |-> {}]

\* The record of a call `op` that ran Self::alloc with result r and ended
\* with `res`.
AllocRecord(op, direction, config, r, res) ==
    [op |-> op, dir |-> direction, number |-> config.number,
     descr |-> r.res, res |-> res, address |-> r.address,
     pre_in |-> endpoints_in, pre_out |-> endpoints_out,
     dup |-> /\ r.res = "Ok"
             /\ address_number(r.address) \in handed[direction],
     again |-> config.number \in handed[direction]]

\* One call of Self::alloc (bus.rs 192-200) on the bitmap of `direction`:
\* the allocate operation, taken by itself.
AllocCall(direction, config) ==
    LET bitmap == IF direction = "In" THEN endpoints_in ELSE endpoints_out
        r      == alloc(bitmap, config, direction, overflow_checks)
    IN  /\ ~panicked
        /\ endpoints_in'  = IF direction = "In"  THEN r.bitmap ELSE endpoints_in
        /\ endpoints_out' = IF direction = "Out" THEN r.bitmap ELSE endpoints_out
        /\ panicked' = (r.res = "Panic")
        /\ alloc_last' = AllocRecord("alloc", direction, config, r, r.res)
        /\ handed' = IF r.res = "Ok"
                     THEN [handed EXCEPT ![direction] = @ \cup {address_number(r.address)}]
                     ELSE handed
        /\ UNCHANGED <<overflow_checks, bus_vars, ctx_vars>>

alloc_step ==
    \E direction \in Directions, number \in Numbers \cup {None} :
        AllocCall(direction, [number |-> number])

\* alloc_out / alloc_in (bus.rs 204-215): Self::alloc on the direction's
\* bitmap; its error is returned by `?`; after its success the function runs
\* into unimplemented!(): the call panics with the bit set in the bitmap and
\* no endpoint is handed out.
AllocEntry(op, direction, config) ==
    LET bitmap == IF direction = "In" THEN endpoints_in ELSE endpoints_out
        r      == alloc(bitmap, config, direction, overflow_checks)
    IN  /\ ~panicked
        /\ endpoints_in'  = IF direction = "In"  THEN r.bitmap ELSE endpoints_in
        /\ endpoints_out' = IF direction = "Out" THEN r.bitmap ELSE endpoints_out
        /\ panicked' = (r.res \in {"Panic", "Ok"})
        /\ alloc_last' = AllocRecord(op, direction, config, r,
                                     IF r.res = "Ok" THEN "Unimplemented" ELSE r.res)
        /\ UNCHANGED <<handed, overflow_checks, bus_vars, ctx_vars>>

alloc_in ==
    \E number \in Numbers \cup {None} : AllocEntry("alloc_in", "In", [number |-> number])

alloc_out ==
    \E number \in Numbers \cup {None} : AllocEntry("alloc_out", "Out", [number |-> number])

\* UsbBus::create_allocator (bus.rs 246-248): unimplemented!().
create_allocator ==
    /\ ~panicked
    /\ panicked' = TRUE
    /\ alloc_last' = [NoCall EXCEPT !.op = "create_allocator", !.res = "Unimplemented"]
    /\ UNCHANGED <<endpoints_in, endpoints_out, handed, overflow_checks,
                   bus_vars, ctx_vars>>

\* The allocate operation by itself.
AllocNext == alloc_step

SpecAlloc == AllocInit /\ [][AllocNext]_vars

\* The allocate operation and the entry points that call it.
AllocatorNext == alloc_step \/ alloc_in \/ alloc_out \/ create_allocator

SpecAllocator == AllocInit /\ [][AllocatorNext]_vars

(***************************************************************************)
(* Claims about the allocator, checked under SpecAlloc and SpecAllocator.  *)
(***************************************************************************)

\* The claims speak of the allocate operation, Self::alloc: of what it
\* returned (alloc_last.descr, alloc_last.address) and of the bitmaps around
\* it, whether it was called by itself or as the first statement of alloc_in
\* / alloc_out, which panic in unimplemented!() after its success.

\* The bitmap of the last call's direction, before and after the call, and
\* the other direction's bitmap, before and after.
LastPre   == IF alloc_last.dir = "In" THEN alloc_last.pre_in ELSE alloc_last.pre_out
LastPost  == IF alloc_last.dir = "In" THEN endpoints_in ELSE endpoints_out
OtherPre  == IF alloc_last.dir = "In" THEN alloc_last.pre_out ELSE alloc_last.pre_in
OtherPost == IF alloc_last.dir = "In" THEN endpoints_out ELSE endpoints_in

LastCalled  == alloc_last.dir \in Directions
LastAnyFree == LastCalled /\ alloc_last.number = None
LastSpecific == LastCalled /\ alloc_last.number # None
LastFailed  == alloc_last.descr \in {"InvalidEndpoint", "EndpointOverflow"}
LastNumber  == address_number(alloc_last.address)

\* The scan's candidates that are free before the last call.
FreeScan == {k \in SCAN_START .. (SCAN_END - 1) : BitOf(LastPre, k) = 0}

\* C1: in every sequence of allocation requests, a request with no number
\* never returns endpoint number 0, and no number is returned successfully
\* for a direction in which it has been returned before: a specific request
\* for a number already handed out in that direction ends in an error.
C1_NoZeroNoDuplicate ==
    /\ (LastAnyFree /\ alloc_last.descr = "Ok") => LastNumber # 0
    /\ ~alloc_last.dup
    /\ alloc_last.again => LastFailed

\* C1 witness: a number handed out earlier in the direction is requested
\* again and refused, at least two numbers being handed out there.
C1_Witness ==
    /\ LastSpecific
    /\ alloc_last.descr = "InvalidEndpoint"
    /\ alloc_last.again
    /\ Cardinality(handed[alloc_last.dir]) >= 2

\* C2: an any-free allocation returns the lowest number of 1..3 whose bit is
\* clear in the direction's bitmap and sets exactly that bit; with 1, 2 and 3
\* all taken it fails with EndpointOverflow whether or not 0 is taken.
C2_AnyFreeLowest ==
    LastAnyFree =>
        IF FreeScan # {}
        THEN /\ alloc_last.descr = "Ok"
             /\ LastNumber \in FreeScan
             /\ \A k \in FreeScan : LastNumber <= k
             /\ LastPost = LastPre + 2 ^ LastNumber
             /\ OtherPost = OtherPre
        ELSE /\ alloc_last.descr = "EndpointOverflow"
             /\ LastPost = LastPre
             /\ OtherPost = OtherPre

\* C2 witness: the scenario of the spec: endpoint 0 was allocated by number
\* for IN and OUT, 1, 2 and 3 were handed out for IN, and a further any-free
\* IN request ends in EndpointOverflow.
C2_Witness ==
    /\ LastAnyFree
    /\ alloc_last.dir = "In"
    /\ alloc_last.descr = "EndpointOverflow"
    /\ handed["In"] = {0, 1, 2, 3}
    /\ 0 \in handed["Out"]

\* C3: a specific-number allocation (for a number that has a bit in the u8
\* bitmap) succeeds iff that bit is clear in the direction's bitmap; on
\* success exactly that bit is set and the other direction's bitmap is
\* unchanged; with the bit set it fails with InvalidEndpoint.  Every failed
\* allocation leaves both bitmaps as they were.
C3_SpecificIffClear ==
    /\ (LastSpecific /\ alloc_last.number < BITMAP_BITS) =>
          IF BitOf(LastPre, alloc_last.number) = 0
          THEN /\ alloc_last.descr = "Ok"
               /\ LastNumber = alloc_last.number
               /\ LastPost = LastPre + 2 ^ alloc_last.number
               /\ OtherPost = OtherPre
          ELSE alloc_last.descr = "InvalidEndpoint"
    /\ LastFailed => (LastPost = LastPre /\ OtherPost = OtherPre)

\* C3 witness: a specific request refused with InvalidEndpoint while the
\* other direction's bitmap holds the same number.
C3_Witness ==
    /\ LastSpecific
    /\ alloc_last.descr = "InvalidEndpoint"
    /\ BitOf(LastPre, alloc_last.number) = 1
    /\ BitOf(OtherPost, alloc_last.number) = 1
    /\ LastPost # OtherPost

\* C4 (as claimed): every successfully returned descriptor has an endpoint
\* number in 0..3 and no bit above bit 3 is set in either bitmap.
C4_NumbersWithinRange ==
    /\ alloc_last.descr = "Ok" => LastNumber \in 0 .. (SCAN_END - 1)
    /\ endpoints_in < 2 ^ SCAN_END
    /\ endpoints_out < 2 ^ SCAN_END

(***************************************************************************)
(* Claims about configure_all, checked under SpecFifo.                     *)
(***************************************************************************)

FifoCalled == call.op = "configure_all"

Headroom == IF hs THEN RX_HEADROOM_HS ELSE RX_HEADROOM_FS

\* The TX FIFO depth of IN endpoint n, and the sum of the depths of TX FIFOs
\* 0 .. n-1.
TxDepth(n) == IF eps_in[n].fifo > TX_FIFO_FLOOR THEN eps_in[n].fifo ELSE TX_FIFO_FLOOR

RECURSIVE TxDepthBelow(_)
TxDepthBelow(n) == IF n = 0 THEN 0 ELSE TxDepthBelow(n - 1) + TxDepth(n - 1)

HasEv(log, op, n) == \E i \in 1 .. Len(log) : log[i] = Ev(op, n)

HasOp(log, ops) == \E i \in 1 .. Len(log) : log[i].op \in ops

\* The position of the first op-on-n step of the log, 0 if there is none.
FirstEv(log, op, n) ==
    IF HasEv(log, op, n)
    THEN CHOOSE i \in 1 .. Len(log) :
             /\ log[i] = Ev(op, n)
             /\ \A j \in 1 .. (i - 1) : log[j] # Ev(op, n)
    ELSE 0

\* C5 (as claimed): if total_rx + sum of max(tx_i, 16) <= FIFO depth then
\* configure_all completes without the fatal abort, and it never completes
\* with fifo_top greater than the depth.
C5_Original ==
    FifoCalled =>
        /\ (total_rx + TxDepthBelow(NUM_ENDPOINTS) <= FIFO_DEPTH_WORDS)
              => call.res = "done"
        /\ call.res = "done" => call.fifo_top <= FIFO_DEPTH_WORDS

\* C5 (amended): if total_rx + headroom (20 full-speed, 30 high-speed) + sum
\* of max(tx_i, 16) <= FIFO depth then configure_all completes without the
\* fatal abort, and it never completes with fifo_top greater than the depth.
C5_FitsWithHeadroom ==
    FifoCalled =>
        /\ (total_rx + Headroom + TxDepthBelow(NUM_ENDPOINTS) <= FIFO_DEPTH_WORDS)
              => call.res = "done"
        /\ call.res = "done" => call.fifo_top <= FIFO_DEPTH_WORDS

\* C5 witness: a configuration that fills the FIFO memory to the last word
\* has been programmed without abort.
C5_Witness ==
    /\ FifoCalled
    /\ call.res = "done"
    /\ call.fifo_top = FIFO_DEPTH_WORDS
    /\ total_rx + Headroom + TxDepthBelow(NUM_ENDPOINTS) = FIFO_DEPTH_WORDS

FifoProgramLog ==
    <<Ev("W_GRXFSIZ", None), Ev("W_DIEPTXF", 0), Ev("W_DIEPTXF", 1),
      Ev("W_DIEPTXF", 2), Ev("W_DIEPTXF", 3)>>

\* C6 (as claimed): inputs that exceed the depth abort, and when fifo_top
\* already exceeds the depth after the RX FIFO or TX FIFO 0, 1 or 2, the
\* abort happens before the register of TX FIFO #3 is written.
C6_Original ==
    FifoCalled =>
        /\ (total_rx + Headroom + TxDepthBelow(NUM_ENDPOINTS) > FIFO_DEPTH_WORDS)
              => call.res = "Panic"
        /\ (total_rx + Headroom + TxDepthBelow(NUM_ENDPOINTS - 1) > FIFO_DEPTH_WORDS)
              => (call.res = "Panic" /\ ~HasEv(call.log, "W_DIEPTXF", NUM_ENDPOINTS - 1))

\* C6 (amended): inputs whose FIFO sizes exceed the depth abort, always at
\* the one check that follows the programming of the RX FIFO and of all four
\* TX FIFOs (TX FIFO #3 included, also when an earlier FIFO already
\* overflowed) and that precedes the flush and the endpoint bring-up.
C6_AbortAfterProgramming ==
    (FifoCalled
        /\ total_rx + Headroom + TxDepthBelow(NUM_ENDPOINTS) > FIFO_DEPTH_WORDS)
    => /\ call.res = "Panic"
       /\ panicked
       /\ call.log = Append(FifoProgramLog, Ev("PANIC_ASSERT", None))
       /\ regs.dieptxf[NUM_ENDPOINTS - 1].fsa
              = total_rx + Headroom + TxDepthBelow(NUM_ENDPOINTS - 1)
       /\ regs.iepm = {} /\ regs.oepm = {}
       /\ \A n \in EPS : ~eps_in[n].conf /\ ~eps_out[n].conf

\* C6 witness: the RX FIFO alone exceeds the depth, TX FIFO #3 was programmed
\* all the same, and the call aborted.
C6_Witness ==
    /\ FifoCalled
    /\ total_rx + Headroom > FIFO_DEPTH_WORDS
    /\ HasEv(call.log, "W_DIEPTXF", NUM_ENDPOINTS - 1)
    /\ call.res = "Panic"

(***************************************************************************)
(* Claims about poll, checked under SpecPoll.                              *)
(***************************************************************************)

PollCalled == call.op = "poll"

\* The steps poll makes only when it evaluates data events.
DataOps == {"R_GRXSTSR", "POP_GRXSTSP", "R_DIEPTSIZ_PKTCNT", "FLUSH_TX",
            "R_GRSTCTL_TXFFLSH", "MARK_OUT", "MARK_SETUP",
            "W_DOEPCTL_CNAK_EPENA", "FILL_FROM_FIFO", "FILL_FROM_FIFO_ERR",
            "R_DIEPINT_XFRC", "W_DIEPINT_XFRC"}

\* The steps that take an entry or its bytes out of the RX FIFO.
DrainOps == {"POP_GRXSTSP", "FILL_FROM_FIFO", "FILL_FROM_FIFO_ERR"}

NoDataEvaluated ==
    /\ ~HasOp(call.log, DataOps)
    /\ call.ep_out = {} /\ call.ep_in_complete = {} /\ call.ep_setup = {}

\* C7: poll classifies one status snapshot by strict priority: Reset
\* whenever enumeration done is set, whatever else is set; otherwise Resume
\* whenever wakeup is set; otherwise Suspend whenever suspend is set; data
\* events are evaluated, and Data or None returned, only with none of the
\* three set.
C7_Priority ==
    PollCalled =>
        /\ call.snap.enum_done => call.res = "Reset"
        /\ (~call.snap.enum_done /\ call.snap.wakeup) => call.res = "Resume"
        /\ (~call.snap.enum_done /\ ~call.snap.wakeup /\ call.snap.suspend)
              => call.res = "Suspend"
        /\ (~call.snap.enum_done /\ ~call.snap.wakeup /\ ~call.snap.suspend)
              => call.res \in {"Data", "None"}
        /\ call.res \in {"Reset", "Resume", "Suspend"} => NoDataEvaluated

\* C7 witness: a snapshot with all six bits set was classified as Reset.
C7_Witness ==
    /\ PollCalled
    /\ call.snap.enum_done /\ call.snap.reset /\ call.snap.wakeup
    /\ call.snap.suspend /\ call.snap.rxflvl /\ call.snap.iep
    /\ call.res = "Reset"

\* A step of poll: only poll leaves a record of a poll call in `call` (the
\* hardware and the consumer drop the record, reset leaves its own).
PollStep == call'.op = "poll"

\* No event bit of higher priority than the data events is set.
NoPriorityBit ==
    ~regs.usbrst /\ ~regs.enumdne /\ ~regs.wkupint /\ ~regs.usbsusp

\* The head of the RX FIFO is an OUT-received / SETUP-received entry of
\* endpoint n.
HeadIsPacketOf(n) ==
    /\ rx_fifo # <<>>
    /\ Head(rx_fifo).epnum = n
    /\ Head(rx_fifo).status \in {PKTSTS_OUT_RECEIVED, PKTSTS_SETUP_RECEIVED}

\* C8: backpressure: a poll call made while an initialized OUT endpoint's
\* buffer is non-Empty and no higher-priority event bit (reset detected,
\* enumeration done, wakeup, suspend) is set reports the endpoint in the out
\* mask (DataOut) or the setup mask (DataSetup), leaves the buffer as it is,
\* and neither pops an OUT-received / SETUP-received entry of that endpoint
\* nor drains its bytes: the entry stays at the head of the RX FIFO.
C8_Backpressure ==
    [][\A n \in EPS :
          (PollStep /\ eps_out[n].init /\ eps_out[n].buf # "Empty" /\ NoPriorityBit)
          => /\ call'.res = "Data"
             /\ eps_out[n].buf = "DataOut" => n \in call'.ep_out
             /\ eps_out[n].buf = "DataSetup" => n \in call'.ep_setup
             /\ eps_out'[n].buf = eps_out[n].buf
             /\ HeadIsPacketOf(n)
                  => (rx_fifo' = rx_fifo /\ ~HasOp(call'.log, DrainOps))]_vars

\* C8 witness: after a poll call, an OUT-received entry is still at the head
\* of the RX FIFO because its endpoint's buffer holds a packet, and the
\* endpoint is reported.
C8_Witness ==
    /\ PollCalled
    /\ call.res = "Data"
    /\ rx_fifo # <<>>
    /\ Head(rx_fifo).status = PKTSTS_OUT_RECEIVED
    /\ call.entry = Head(rx_fifo)
    /\ eps_out[Head(rx_fifo).epnum].init
    /\ eps_out[Head(rx_fifo).epnum].buf = "DataSetup"
    /\ Head(rx_fifo).epnum \in call.ep_setup
    /\ ~HasOp(call.log, DrainOps)

AllBuffersEmpty == \A n \in EPS : eps_out[n].init => eps_out[n].buf = "Empty"

\* C9 (as claimed): with no interrupt / status bit set, poll returns None
\* and does nothing but the read of GINTSTS.
C9_Original ==
    (PollCalled /\ call.snap = NoSnap)
    => (call.res = "None" /\ call.log = <<Ev("R_GINTSTS", None)>>)

\* C9 (amended): with no interrupt / status bit set, two consecutive poll
\* calls return the same result, None when every initialized OUT endpoint's
\* buffer is Empty and otherwise Data reporting the non-Empty buffers, and
\* neither call writes a register, pops the RX status FIFO or changes an
\* endpoint buffer.
C9_IdempotentNoEvent ==
    [][(PollStep /\ read_gintsts(BusState) = NoSnap)
       => /\ UNCHANGED <<regs, in_regs, rx_fifo, eps_in, eps_out>>
          /\ call'.log = <<Ev("R_GINTSTS", None)>>
          /\ call'.res = (IF AllBuffersEmpty THEN "None" ELSE "Data")
          /\ call'.ep_in_complete = {}
          /\ call'.ep_out = {n \in EPS : eps_out[n].init /\ eps_out[n].buf = "DataOut"}
          /\ call'.ep_setup = {n \in EPS : eps_out[n].init /\ eps_out[n].buf = "DataSetup"}
          /\ (PollCalled /\ call.snap = NoSnap) => call'.res = call.res]_vars

\* C9 witness: a poll call with no bit set returned None while a masked IN
\* endpoint has its transfer-complete bit pending, and left it pending.
C9_Witness ==
    /\ PollCalled
    /\ call.snap = NoSnap
    /\ call.res = "None"
    /\ \E n \in EPS : eps_in[n].init /\ in_regs[n].xfrc

\* C10: when poll reads a SETUP-received entry of endpoint n and IN endpoint
\* n has a nonzero pending packet count, TX FIFO n is flushed before n is
\* marked in the setup mask and before the entry is popped or drained; with
\* a zero packet count no TX FIFO is flushed.  Observed complete: the reads
\* of GRSTCTL.TXFFLSH that wait for the flush follow its write at once, one
\* at least, and the last of them precedes the mark, the pop and the drain.
\* The packet count is the one
\* poll reads in DIEPTSIZ (call.pktcnt): a packet still pending after the
\* call was pending at that read.
C10_SetupFlushFirst ==
    (PollCalled /\ call.entry.status = PKTSTS_SETUP_RECEIVED)
    => LET n == call.entry.epnum
           flushed == FirstEv(call.log, "FLUSH_TX", n)
       IN  /\ n \in call.ep_setup
           /\ HasEv(call.log, "MARK_SETUP", n)
           /\ HasEv(call.log, "R_DIEPTSIZ_PKTCNT", n)
           /\ in_regs[n].pktcnt => call.pktcnt
           /\ IF call.pktcnt
              THEN /\ flushed > 0
                   /\ FirstEv(call.log, "R_DIEPTSIZ_PKTCNT", n) < flushed
                   /\ flushed < FirstEv(call.log, "MARK_SETUP", n)
                   /\ \A i \in 1 .. Len(call.log) :
                         call.log[i].op \in DrainOps => flushed < i
                   /\ \A i \in 1 .. Len(call.log) :
                         call.log[i].op = "FLUSH_TX" => i = flushed
                   /\ call.log[flushed + 1] = Ev("R_GRSTCTL_TXFFLSH", None)
                   /\ \A i \in 1 .. Len(call.log) :
                         call.log[i].op = "R_GRSTCTL_TXFFLSH"
                         => /\ flushed < i
                            /\ i < FirstEv(call.log, "MARK_SETUP", n)
                            /\ \A j \in flushed .. i :
                                  call.log[j].op \in {"FLUSH_TX", "R_GRSTCTL_TXFFLSH"}
                            /\ \A j \in 1 .. Len(call.log) :
                                  call.log[j].op \in DrainOps => i < j
              ELSE ~HasOp(call.log, {"FLUSH_TX"})

\* C10 witness: a SETUP entry met a stale packet count on its IN endpoint:
\* the TX FIFO was flushed, the flush awaited for MaxWait reads, the endpoint
\* marked, the entry popped and drained.
C10_Witness ==
    /\ PollCalled
    /\ call.entry.status = PKTSTS_SETUP_RECEIVED
    /\ in_regs[call.entry.epnum].pktcnt
    /\ HasEv(call.log, "FLUSH_TX", call.entry.epnum)
    /\ Cardinality({i \in 1 .. Len(call.log) :
                        call.log[i].op = "R_GRSTCTL_TXFFLSH"}) = MaxWait
    /\ HasEv(call.log, "FILL_FROM_FIFO", call.entry.epnum)
    /\ eps_out[call.entry.epnum].buf = "DataSetup"

\* A step of the driver: poll or reset.
DriverStep == call'.op \in {"poll", "reset"}

FillOps == {"FILL_FROM_FIFO", "FILL_FROM_FIFO_ERR"}

\* The number of fill_from_fifo calls in a log.
Fills(log) == Cardinality({i \in 1 .. Len(log) : log[i].op \in FillOps})

\* C11: the driver calls fill_from_fifo only on a buffer whose state is
\* Empty, at most once per call; the only buffer transitions a driver call
\* makes are Empty -> DataOut on an OUT-received entry of that endpoint and
\* Empty -> DataSetup on a SETUP-received entry of that endpoint; it never
\* changes a non-Empty buffer, so never overwrites one and never sets one
\* back to Empty.
C11_FillOnlyEmpty ==
    [][DriverStep =>
         /\ Fills(call'.log) <= 1
         /\ \A n \in EPS :
               /\ (\E i \in 1 .. Len(call'.log) :
                      call'.log[i].op \in FillOps /\ call'.log[i].n = n)
                  => eps_out[n].buf = "Empty"
               /\ eps_out[n].buf # "Empty" => eps_out'[n].buf = eps_out[n].buf
               /\ eps_out'[n].buf # eps_out[n].buf
                  => /\ call'.op = "poll"
                     /\ call'.entry.epnum = n
                     /\ HasEv(call'.log, "FILL_FROM_FIFO", n)
                     /\ \/ /\ call'.entry.status = PKTSTS_OUT_RECEIVED
                            /\ eps_out'[n].buf = "DataOut"
                        \/ /\ call'.entry.status = PKTSTS_SETUP_RECEIVED
                            /\ eps_out'[n].buf = "DataSetup"]_vars

\* C11 witness: a poll call has filled the Empty buffer of endpoint 1 with
\* an OUT packet while the buffer of endpoint 0 held an unconsumed SETUP
\* packet, which it left alone.
C11_Witness ==
    /\ PollCalled
    /\ call.entry.status = PKTSTS_OUT_RECEIVED
    /\ call.entry.epnum = 1
    /\ HasEv(call.log, "FILL_FROM_FIFO", 1)
    /\ eps_out[1].buf = "DataOut"
    /\ eps_out[0].buf = "DataSetup"
    /\ call.ep_out = {1} /\ call.ep_setup = {0}

\* The number of pops of the RX status FIFO in a log.
Pops(log) == Cardinality({i \in 1 .. Len(log) : log[i].op = "POP_GRXSTSP"})

\* C12: no OUT or SETUP packet is lost or duplicated by the decode path: a
\* poll call that handles no bus reset pops at most one entry, and when it
\* pops an OUT-received / SETUP-received entry it leaves that packet in the
\* endpoint's buffer (DataOut / DataSetup) and reports the endpoint, also
\* when fill_from_fifo reports failure.
C12_PoppedIsDelivered ==
    (PollCalled /\ ~call.snap.reset)
    => /\ Pops(call.log) <= 1
       /\ Fills(call.log) <= Pops(call.log)
       /\ (/\ call.entry.status \in {PKTSTS_OUT_RECEIVED, PKTSTS_SETUP_RECEIVED}
           /\ Pops(call.log) = 1)
          => LET n == call.entry.epnum
             IN  IF call.entry.status = PKTSTS_SETUP_RECEIVED
                 THEN eps_out[n].buf = "DataSetup" /\ n \in call.ep_setup
                 ELSE eps_out[n].buf = "DataOut" /\ n \in call.ep_out

(***************************************************************************)
(* Claims about bring-up and the device address, checked under             *)
(* SpecBringUp.                                                            *)
(***************************************************************************)

\* C13: the device address register holds 0 right after every reset call
\* that returns, holds the 7-bit address addr right after every
\* set_device_address(addr) call, and is changed by no poll call and by
\* nothing but these calls.
C13_DeviceAddress ==
    [][/\ (call'.op = "reset" /\ call'.res = "done") => regs'.dad = 0
       /\ call'.op = "set_device_address"
             => /\ regs'.dad = call'.addr % (2 ^ DAD_WIDTH)
                /\ call'.addr < 2 ^ DAD_WIDTH => regs'.dad = call'.addr
       /\ call'.op \in {"poll", "none"} => regs'.dad = regs.dad]_vars

\* C13 witness: a poll call has handled a bus reset and delivered a packet
\* while the device was addressed, and the address is still in place.
C13_Witness ==
    /\ PollCalled
    /\ call.snap.reset
    /\ call.res = "Data"
    /\ regs.dad = 127

(***************************************************************************)
(* Claims about the two execution contexts, checked under SpecCtx.         *)
(***************************************************************************)

\* The call of context c has made its first register access and not yet
\* its last.
Between(c) ==
    /\ ctx[c].phase # "idle"
    /\ ctx[c].pc >= 1
    /\ ctx[c].pc < ctx_len(c)

\* The call of context c has made a register access.
Accessed(c) == ctx[c].phase # "idle" /\ ctx[c].pc >= 1

\* The call of context c has made a register access inside its critical
\* section.
AccessedInside(c) ==
    ctx[c].phase = "inside" /\ ctx[c].pc > ahead_of_section(ctx[c].op)

\* The call of context c is between the first and the last access of its
\* critical section.
BetweenInside(c) == AccessedInside(c) /\ ctx[c].pc < ctx_len(c)

\* C14: register access is mutually exclusive between the foreground and
\* the interrupt context: while a call of one context is between its first
\* and its last register access, no call of the other context makes a
\* register access, whichever of enable, reset, poll, set_device_address,
\* configure_all and deconfigure_all the two contexts call.
C14_MutualExclusion ==
    /\ ~(Between("fg") /\ Accessed("isr"))
    /\ ~(Between("isr") /\ Accessed("fg"))

\* What holds of the critical sections themselves: an access inside a
\* section is made with interrupts disabled, and no call of the other
\* context makes an access between the first and the last access of a
\* section.
SectionsExclusive ==
    /\ ~(BetweenInside("fg") /\ Accessed("isr"))
    /\ ~(BetweenInside("isr") /\ AccessedInside("fg"))
    /\ \A c \in {"fg", "isr"} : AccessedInside(c) => primask

\* The interrupt handler runs a call between enable's USB::enable() and
\* enable's critical section.
EnableInterleaved ==
    /\ ctx["fg"].op = "enable"
    /\ ctx["fg"].phase = "called"
    /\ ctx["fg"].pc = 1
    /\ ctx["isr"].op = "poll"
    /\ ctx["isr"].phase = "inside"
    /\ ctx["isr"].pc > 1

(***************************************************************************)
(* Claims about the status entries poll decodes, checked under SpecRx.     *)
(***************************************************************************)

\* C15: in the data-event branch poll returns Data exactly when the union
\* of the three masks is non-empty and None exactly when it is empty, and
\* every bit set in a mask is at an endpoint number 0..3, whatever endpoint
\* number, byte count and status code the RX status entry carries.
C15_MasksWithinRange ==
    PollCalled =>
        LET union == call.ep_out \cup call.ep_in_complete \cup call.ep_setup
        IN  /\ (~call.snap.enum_done /\ ~call.snap.wakeup /\ ~call.snap.suspend)
                  => /\ call.res \in {"Data", "None"}
                     /\ call.res = "Data" <=> union # {}
            /\ union \subseteq EPS

(***************************************************************************)
(* Claims about poll's reset handling, checked under SpecPoll.             *)
(***************************************************************************)

\* What a poll call that observes reset detected does first, in order.
ResetHandlingLog ==
    <<Ev("R_GINTSTS", None), Ev("W_GINTSTS_USBRST", None),
      Ev("W_DAINTMSK_CLEAR", None)>>
    \o [n \in 1 .. NUM_ENDPOINTS |-> Ev("DECONFIGURE_IN", n - 1)]
    \o [n \in 1 .. NUM_ENDPOINTS |-> Ev("DECONFIGURE_OUT", n - 1)]
    \o <<Ev("FLUSH_RX", None), Ev("R_GRSTCTL_RXFFLSH", None)>>

ConfigureOps == {"W_GRXFSIZ", "W_DIEPTXF", "FLUSH_RX_TX_ALL",
                 "R_GRSTCTL_RXFFLSH_TXFFLSH", "W_DAINTMSK_IN",
                 "W_DAINTMSK_OUT", "CONFIGURE_IN", "CONFIGURE_OUT"}

\* C16: a poll call that observes reset detected first acknowledges the
\* bit, clears every IN and OUT endpoint interrupt mask bit, deconfigures
\* all four IN and all four OUT endpoints, initialized or not, and flushes
\* the RX FIFO, in this order and ahead of every later step; it does not
\* return on that account: it returns Reset only if enumeration done is set
\* too, and with enumeration done, wakeup and suspend clear it returns Data
\* or None.  No poll call makes a step of configure_all, and only reset
\* configures an endpoint or sets a mask bit.
C16_ResetHandling ==
    [][/\ (PollStep /\ regs.usbrst)
          => /\ Len(call'.log) >= Len(ResetHandlingLog)
             /\ SubSeq(call'.log, 1, Len(ResetHandlingLog)) = ResetHandlingLog
             /\ ~regs'.usbrst
             /\ regs'.iepm = {} /\ regs'.oepm = {}
             /\ \A n \in EPS : ~eps_in'[n].conf /\ ~eps_out'[n].conf
             /\ rx_fifo' = <<>>
             /\ call'.res = "Reset" <=> regs.enumdne
             /\ (~regs.enumdne /\ ~regs.wkupint /\ ~regs.usbsusp)
                   => call'.res \in {"Data", "None"}
       /\ PollStep => ~HasOp(call'.log, ConfigureOps)
       /\ call'.op # "reset"
          => /\ regs'.iepm \subseteq regs.iepm
             /\ regs'.oepm \subseteq regs.oepm
             /\ \A n \in EPS : (eps_in'[n].conf => eps_in[n].conf)
             /\ \A n \in EPS : (eps_out'[n].conf => eps_out[n].conf)]_vars

\* C16 witness: a poll call found reset detected and an unmasked IN
\* transfer complete, with enumeration done, wakeup and suspend clear: it
\* tore the configured endpoints down and returned Data.
C16_Witness ==
    /\ PollCalled
    /\ call.snap.reset /\ call.snap.iep
    /\ ~call.snap.enum_done /\ ~call.snap.wakeup /\ ~call.snap.suspend
    /\ call.res = "Data"
    /\ regs.iepm = {} /\ regs.oepm = {}
    /\ \A n \in EPS : ~eps_in[n].conf /\ ~eps_out[n].conf

(***************************************************************************)
(* Claims about the bring-up after a bus reset, checked under SpecBringUp. *)
(***************************************************************************)

BringUpOps == {"W_DAINTMSK_IN", "W_DAINTMSK_OUT", "CONFIGURE_IN", "CONFIGURE_OUT"}

\* The number of op-on-n steps of a log.
CountEv(log, op, n) == Cardinality({i \in 1 .. Len(log) : log[i] = Ev(op, n)})

\* C17: after a poll that handled a bus reset (deconfigure_all) and the
\* reset call that follows it (configure_all), the endpoint interrupt mask
\* has IN bit n set exactly for the initialized IN endpoints n, the OUT bit
\* of endpoint 0 set exactly if OUT endpoint 0 is initialized and no other
\* OUT bit; configure has been called once on every initialized IN and OUT
\* endpoint and on no other; and the RX+TX FIFO flush had completed before
\* the first mask bit was set and the first endpoint configured: the reads
\* of GRSTCTL that wait for it follow its write at once, one at least, and
\* the last of them precedes every mask write and every configure.
C17_MasksAfterReset ==
    (call.op = "reset" /\ call.after_bus_reset /\ call.res = "done")
    => /\ regs.iepm = {n \in EPS : eps_in[n].init}
       /\ regs.oepm = {n \in {0} : eps_out[n].init}
       /\ \A n \in EPS :
             /\ CountEv(call.log, "CONFIGURE_IN", n) = (IF eps_in[n].init THEN 1 ELSE 0)
             /\ CountEv(call.log, "CONFIGURE_OUT", n) = (IF eps_out[n].init THEN 1 ELSE 0)
             /\ eps_in[n].conf <=> eps_in[n].init
             /\ eps_out[n].conf <=> eps_out[n].init
       /\ CountEv(call.log, "FLUSH_RX_TX_ALL", None) = 1
       /\ \A i \in 1 .. Len(call.log) :
             call.log[i].op \in BringUpOps
             => FirstEv(call.log, "FLUSH_RX_TX_ALL", None) < i
       /\ call.log[FirstEv(call.log, "FLUSH_RX_TX_ALL", None) + 1]
              = Ev("R_GRSTCTL_RXFFLSH_TXFFLSH", None)
       /\ \A i \in 1 .. Len(call.log) :
             call.log[i].op = "R_GRSTCTL_RXFFLSH_TXFFLSH"
             => /\ \A j \in FirstEv(call.log, "FLUSH_RX_TX_ALL", None) .. i :
                      call.log[j].op \in {"FLUSH_RX_TX_ALL", "R_GRSTCTL_RXFFLSH_TXFFLSH"}
                /\ \A j \in 1 .. Len(call.log) :
                      call.log[j].op \in BringUpOps => i < j
       /\ rx_fifo = <<>>

\* C17 witness: a reset call after a bus-reset poll has brought up a device
\* with IN endpoints 1 and 3, OUT endpoints 1 and 3 and no endpoint 0: two
\* IN bits and no OUT bit are set in the mask, after a flush awaited for
\* MaxWait reads.
C17_Witness ==
    /\ call.op = "reset"
    /\ call.after_bus_reset
    /\ call.res = "done"
    /\ regs.iepm = {1, 3}
    /\ regs.oepm = {}
    /\ eps_out[1].conf /\ eps_out[3].conf /\ ~eps_out[0].conf
    /\ CountEv(call.log, "R_GRSTCTL_RXFFLSH_TXFFLSH", None) = MaxWait

(***************************************************************************)
(* Claims about the FIFO layout, checked under SpecFifo.                   *)
(***************************************************************************)

\* C18: whenever configure_all completes without abort the programmed
\* layout partitions the FIFO memory without gap or overlap: the RX FIFO is
\* [0, rx_size) with rx_size = total RX demand + headroom (20 full-speed,
\* 30 high-speed); TX FIFO i, programmed in ascending order, has depth
\* max(fifo_size_words of IN endpoint i, 16) and starts at rx_size plus the
\* depths of TX FIFOs 0 .. i-1; and rx_size plus the four depths is at most
\* the FIFO depth.
C18_FifoLayout ==
    (FifoCalled /\ call.res = "done")
    => /\ regs.grxfsiz = total_rx + Headroom
       /\ SubSeq(call.log, 1, Len(FifoProgramLog)) = FifoProgramLog
       /\ \A i \in EPS :
             /\ regs.dieptxf[i].fd = TxDepth(i)
             /\ regs.dieptxf[i].fd >= TX_FIFO_FLOOR
             /\ regs.dieptxf[i].fsa = regs.grxfsiz + TxDepthBelow(i)
             /\ regs.dieptxf[i].fsa =
                    (IF i = 0 THEN regs.grxfsiz
                     ELSE regs.dieptxf[i - 1].fsa + regs.dieptxf[i - 1].fd)
       /\ regs.grxfsiz + TxDepthBelow(NUM_ENDPOINTS) <= FIFO_DEPTH_WORDS
       /\ call.fifo_top = regs.grxfsiz + TxDepthBelow(NUM_ENDPOINTS)

\* C18 witness: a high-speed layout with TX FIFOs of different depths, one
\* of them raised to the floor, has been programmed.
C18_Witness ==
    /\ FifoCalled
    /\ call.res = "done"
    /\ hs
    /\ total_rx = 64
    /\ eps_in[0].fifo = 64 /\ eps_in[1].fifo = 0 /\ eps_in[2].fifo = 16
    /\ regs.dieptxf[1] = [fd |-> 16, fsa |-> 158]
    /\ regs.dieptxf[3].fsa = 190

(***************************************************************************)
(* Claims about pending events, checked under SpecPoll.                    *)
(***************************************************************************)

\* IEPINT as the registers after the step show it.
IepintNext == \E n \in EPS : in_regs'[n].xfrc /\ n \in regs'.iepm

\* A poll call acknowledges, of enumeration done, wakeup and suspend, the
\* one it returns and no other, and returns the first of them that is set:
\* with all three set, consecutive calls return Reset, Resume, Suspend.
AcksOneCategory ==
    /\ regs.enumdne => call'.res = "Reset"
    /\ (~regs.enumdne /\ regs.wkupint) => call'.res = "Resume"
    /\ (~regs.enumdne /\ ~regs.wkupint /\ regs.usbsusp) => call'.res = "Suspend"
    /\ regs'.enumdne = (regs.enumdne /\ call'.res # "Reset")
    /\ regs'.wkupint = (regs.wkupint /\ call'.res # "Resume")
    /\ regs'.usbsusp = (regs.usbsusp /\ call'.res # "Suspend")
    /\ ~regs'.usbrst

\* The data events pending before the step are pending after it.
DataStaysPending ==
    /\ rx_fifo' = rx_fifo
    /\ in_regs' = in_regs
    /\ iepint(BusState) => IepintNext

\* A poll call that evaluates data events reports the OUT / SETUP packet at
\* the head of the RX FIFO and every transfer complete of an initialized IN
\* endpoint behind a pending IEPINT.
DataReported ==
    /\ \A n \in EPS :
          /\ (HeadIsPacketOf(n) /\ Head(rx_fifo).status = PKTSTS_OUT_RECEIVED)
                => n \in call'.ep_out
          /\ (HeadIsPacketOf(n) /\ Head(rx_fifo).status = PKTSTS_SETUP_RECEIVED)
                => n \in call'.ep_setup
          /\ (iepint(BusState) /\ eps_in[n].init /\ in_regs[n].xfrc)
                => n \in call'.ep_in_complete
    /\ (rx_fifo # <<>> \/ iepint(BusState)) => HasOp(call'.log, DataOps)

\* C19 (as claimed): a poll call acknowledges only reset detected and the
\* bit of the category it returns; whenever it returns Reset, Resume or
\* Suspend the RX FIFO entries and the IN transfer completes pending at
\* that time stay pending, and the later call that evaluates data events
\* on them reports them.
C19_Original ==
    [][PollStep
       => /\ AcksOneCategory
          /\ call'.res \in {"Reset", "Resume", "Suspend"} => DataStaysPending
          /\ (call'.res \in {"Data", "None"} /\ ~regs.usbrst) => DataReported]_vars

\* C19 (amended): a poll call acknowledges only reset detected and the bit
\* of the category it returns, so with enumeration done, wakeup and suspend
\* all set consecutive calls return Reset, Resume, Suspend.  The RX FIFO
\* entries and IN transfer completes pending at that time stay pending and
\* are reported by the later call that evaluates data events provided the
\* call did not observe reset detected; a call that observes reset
\* detected flushes the RX FIFO, dropping its entries, and clears the
\* endpoint interrupt masks, which takes IEPINT away while the endpoints'
\* transfer-complete bits stay set.
C19_PendingUnlessBusReset ==
    [][PollStep
       => /\ AcksOneCategory
          /\ (call'.res \in {"Reset", "Resume", "Suspend"} /\ ~regs.usbrst)
                => DataStaysPending
          /\ (call'.res \in {"Reset", "Resume", "Suspend"} /\ regs.usbrst)
                => (rx_fifo' = <<>> /\ in_regs' = in_regs /\ ~IepintNext)
          /\ (call'.res \in {"Data", "None"} /\ ~regs.usbrst) => DataReported]_vars

\* C19 witness: of enumeration done, wakeup and suspend, all set, the
\* second call has returned Resume; suspend, an RX FIFO entry and an
\* unmasked IN transfer complete are still pending.
C19_Witness ==
    /\ PollCalled
    /\ call.snap.wakeup /\ call.snap.suspend /\ ~call.snap.enum_done
    /\ call.snap.rxflvl /\ call.snap.iep
    /\ call.res = "Resume"
    /\ regs.usbsusp /\ ~regs.wkupint /\ ~regs.enumdne
    /\ rx_fifo # <<>>
    /\ iepint(BusState)

\* The steps that read, pop or drain the RX FIFO, and those that mark an
\* endpoint on the strength of the entry read.
RxEntryOps == {"R_GRXSTSR", "POP_GRXSTSP", "FILL_FROM_FIFO", "FILL_FROM_FIFO_ERR",
               "MARK_OUT", "MARK_SETUP"}

\* C20: poll reads an RX status entry, pops one or drains FIFO bytes only
\* while the RX FIFO holds an entry: only in a call whose snapshot has RX
\* FIFO non-empty set, and never after the call's own reset handling has
\* flushed the RX FIFO; such a call marks no endpoint in out / setup on the
\* strength of a flushed entry.
C20_ReadsOnlyPresentEntries ==
    PollCalled =>
        /\ HasOp(call.log, RxEntryOps) => call.snap.rxflvl
        /\ \A i \in 1 .. Len(call.log) :
              call.log[i].op \in RxEntryOps
              => ~(\E j \in 1 .. (i - 1) : call.log[j].op = "FLUSH_RX")

====
